---- MODULE Spec2Model ----
(***************************************************************************)
(* Model of the segment pipeline of twitter-video-translator:              *)
(*   TextTranslator.translate_segments      (services/translator.py)       *)
(*   TextToSpeech.generate_speech_for_segments (services/tts.py)           *)
(*   TextToSpeechWithPrompts.generate_speech_with_timing                   *)
(*                                          (services/tts_with_prompts.py) *)
(*   VideoTranslatorCLI.run                 (cli.py)                       *)
(*   AudioTranscriber.transcribe_audio      (services/transcriber.py)      *)
(* Times are in tenths of a second, except in the transcriber, where they  *)
(* are in whole seconds.  Texts, response lines and file names are         *)
(* sequences of one-character strings.  Python indices are 0-based; the    *)
(* element of Python index k of a list is element k+1 of the sequence.     *)
(***************************************************************************)
EXTENDS Integers, Sequences, FiniteSets, TLC

\* ------------------------------------------------------------------ bounds
\* Largest number of segments handed to translate_segments.
MaxSegments == 12
\* Largest number of lines in one translation response.
MaxLines == 2
\* Largest number of segments (and of translated texts) handed to
\* generate_speech_for_segments.
MaxTtsSegments == 3
\* Largest max_attempts handed to generate_speech_with_timing.
MaxAttemptsArg == 3
\* Largest number of segments a transcription of the pipeline run yields.
MaxCliSegments == 2
\* Largest number of segments the speech recognition reports for one chunk.
MaxChunkSegments == 2
\* Largest number of segments handed to merge_audio_segments.
MaxMergeSegments == 3
\* Largest number of times merge_audio_segments is run on the same input.
MaxMergeRuns == 2
\* Largest number of segments and of translated texts handed to both
\* synthesizers when they are compared.
MaxBothSegments == 2
\* Largest number of segments whose style is analyzed.
MaxStyleSegments == 3
\* Number of threads sharing one SessionManager.
MaxThreads == 2
\* Number of generate_async calls made on one TextToSpeech instance.
MaxCalls == 2

\* ------------------------------------------------- translate_segments state
VARIABLES
    segments,             \* translate_segments: the input list
    translated_segments,  \* translate_segments: the list being built
    tr_i,                 \* translate_segments: loop variable i (batch start)
    tr_pc,                \* "idle" | "loop" | "done"
    tr_calls,             \* log of the translation calls made, one per batch
    tr_response           \* response.text of the latest call that returned

tr_vars == <<segments, translated_segments, tr_i, tr_pc, tr_calls, tr_response>>

\* ------------------------------------- generate_speech_for_segments state
VARIABLES
    tts_segments,      \* argument segments
    translated_texts,  \* argument translated_texts (<<>> for None or [])
    tts_pc,            \* "idle" | "tasks" | "first" | "check" | "retry" |
                       \* "retry_run" | "final" | "done"
    tasks,             \* the (idx, segment, path, text) tuples of the pass
    tts_k,             \* number of tasks of the pass already awaited
    audio_files,       \* list of clip paths
    segments_data,     \* list of result entries
    full_text_parts,
    total_duration,
    total_size,
    missing_indices,
    retry_count,
    newly_generated,
    fs,                \* clip files on disk: path -> size in bytes
    gen_log,           \* log of the generate_speech_segment invocations
    running,           \* indices of the tasks whose coroutine is executing
    tts_result         \* the TTSResult returned, NoResult before

tts_vars == <<tts_segments, translated_texts, tts_pc, tasks, tts_k, audio_files,
              segments_data, full_text_parts, total_duration, total_size,
              missing_indices, retry_count, newly_generated, fs, gen_log,
              running, tts_result>>

\* -------------------------------------- generate_speech_with_timing state
VARIABLES
    tm_pc,            \* "idle" | "loop" | "done"
    tm_window,        \* segment_duration = segment.end_time - segment.start_time
    tm_max_attempts,  \* argument max_attempts
    tm_attempt,       \* attempt
    tm_speed,         \* speed_factor, an exact fraction <<numerator, denominator>>
    tm_clip,          \* duration of the clip at output_path, NoClip when absent
    tm_calls,         \* log of the generation calls: the speed directive of each
    tm_result         \* the (path, duration) returned, NoTiming before

tm_vars == <<tm_pc, tm_window, tm_max_attempts, tm_attempt, tm_speed, tm_clip,
             tm_calls, tm_result>>

\* ------------------------------------------- VideoTranslatorCLI.run state
VARIABLES
    cli_pc,               \* the stage about to run, "returned" or "raised"
    cli_use_tts,          \* use_tts
    cli_translation_only, \* target_language in TRANSLATION_ONLY_LANGUAGES
    cli_audio_file,       \* audio_file: TRUE when set to the merged audio
    cli_stages            \* log of the stages started, in order

cli_vars == <<cli_pc, cli_use_tts, cli_translation_only, cli_audio_file, cli_stages>>

\* ------------------------------------------------ transcribe_audio state
VARIABLES
    ts_pc,                \* "idle" | "start" | "probe" | "split" | "loop" | "done" | "raised"
    ts_audio,             \* the file at audio_path: its size in MB and its length
    ts_split_i,           \* split_audio: i of the cutting loop
    ts_segment_paths,     \* split_audio: segment_paths
    ts_audio_segments,    \* audio_segments
    ts_i,                 \* i of the transcription loop
    ts_all_segments,      \* all_segments
    ts_detected_language, \* detected_language
    ts_full_text,         \* full_text
    ts_total_duration,    \* total_duration
    ts_files,             \* chunk files on disk: path -> where the chunk starts in the audio
    ts_calls,             \* log of the recognition calls that returned
    ts_result             \* the TranscriptionResult returned, NoTranscription before

ts_vars == <<ts_pc, ts_audio, ts_split_i, ts_segment_paths, ts_audio_segments, ts_i,
             ts_all_segments, ts_detected_language, ts_full_text, ts_total_duration,
             ts_files, ts_calls, ts_result>>

\* -------------------------------------------- merge_audio_segments state
VARIABLES
    mg_pc,          \* "idle" | "start" | "run" | "returned" | "raised"
    mg_segments,    \* argument segments
    mg_fs,          \* the clip files that exist
    mg_cmd,         \* the ffmpeg command built, NoCommand before
    mg_processes,   \* the commands handed to subprocess.run, in order
    mg_runs         \* how each finished call ended: "returned" or the error raised

mg_vars == <<mg_pc, mg_segments, mg_fs, mg_cmd, mg_processes, mg_runs>>

\* ------------------------------------------ generate_speech_segment state
VARIABLES
    gs_pc,            \* "idle" | "start" | "loop" | "except" | "returned"
    gs_text,          \* argument text
    gs_style_params,  \* argument style_params, NoStyle for None
    gs_full_text,     \* full_text, the text sent to the service
    gs_retry_count,   \* retry_count
    gs_calls,         \* how each call to the service ended
    gs_fs,            \* the clip files written
    gs_result         \* what was returned, NoSegmentResult before

gs_vars == <<gs_pc, gs_text, gs_style_params, gs_full_text, gs_retry_count, gs_calls,
             gs_fs, gs_result>>

\* ------------- TextToSpeechWithPrompts.generate_speech_for_segments state
VARIABLES
    wp_pc,              \* "idle" | "tasks" | "pass" | "final" | "done"
    wp_segments,        \* argument segments
    wp_texts,           \* argument translated_texts
    wp_has_audio,       \* audio_path and audio_path.exists()
    wp_tasks,           \* tasks
    wp_k,               \* number of tasks already awaited
    wp_audio_files,     \* audio_files
    wp_segments_data,   \* segments_data
    wp_full_text_parts, \* full_text_parts
    wp_total_duration,  \* total_duration
    wp_total_size,      \* total_size
    wp_log,             \* log of the generate_speech_with_timing tasks awaited
    wp_result           \* the TTSResult returned, NoResult before

wp_vars == <<wp_pc, wp_segments, wp_texts, wp_has_audio, wp_tasks, wp_k, wp_audio_files,
             wp_segments_data, wp_full_text_parts, wp_total_duration, wp_total_size,
             wp_log, wp_result>>

\* ------------------ generate_speech_for_segments: style analysis state
VARIABLES
    st_pc,               \* "idle" | "start" | "analyze" | "tasks" | "done"
    st_segments,         \* argument segments
    st_texts,            \* argument translated_texts
    st_enabled,          \* analyze_style and audio_path and audio_path.exists()
    st_idx,              \* idx of the style analysis loop
    style_params_cache,  \* style_params_cache: idx -> style parameters
    st_log,              \* what the analysis of each segment did, in order
    st_tasks             \* tasks, each with its style_params

st_vars == <<st_pc, st_segments, st_texts, st_enabled, st_idx, style_params_cache,
             st_log, st_tasks>>

\* ------------------------------------------------- SessionManager state
VARIABLES
    sm_pc,        \* per thread: "idle" | "enter" | "body" | "finally" | "cleanup" | "exited"
    sm_id,        \* per thread: session_id of its session_context
    sm_cleanup,   \* per thread: argument cleanup
    sm_active,    \* _active_sessions: session id -> the thread whose SessionContext it holds
    sm_dirs,      \* the directories in base_temp_dir, by name
    sm_outcome,   \* per thread: how its with block ended
    sm_at_exit    \* per thread: what was true when its session_context finished

sm_vars == <<sm_pc, sm_id, sm_cleanup, sm_active, sm_dirs, sm_outcome, sm_at_exit>>

\* ------------------------------------------------- generate_async state
VARIABLES
    ga_pc,              \* per call: "idle" | "new" | "sleeping" | "done"
    ga_request_voice,   \* per call: request.voice, NoVoice when not given
    ga_original_voice,  \* per call: the local original_voice
    ga_retry_count,     \* per call: retry_count of its generate_speech_segment
    voice_name,         \* self.voice_name of the shared instance
    ga_sleepers,        \* the calls suspended in asyncio.sleep(1), in wake order
    ga_used,            \* the voice_name each generation request was built with
    ga_outcome          \* per call: "result" | "raised", "none" before

ga_vars == <<ga_pc, ga_request_voice, ga_original_voice, ga_retry_count, voice_name,
             ga_sleepers, ga_used, ga_outcome>>

vars == <<tr_vars, tts_vars, tm_vars, cli_vars, ts_vars, mg_vars, gs_vars, wp_vars,
          st_vars, sm_vars, ga_vars>>

\* What a step of one component leaves alone
TrFrame == UNCHANGED <<tts_vars, tm_vars, cli_vars, ts_vars, mg_vars, gs_vars, wp_vars, st_vars, sm_vars, ga_vars>>
TtsFrame == UNCHANGED <<tr_vars, tm_vars, cli_vars, ts_vars, mg_vars, gs_vars, wp_vars, st_vars, sm_vars, ga_vars>>
TmFrame == UNCHANGED <<tr_vars, tts_vars, cli_vars, ts_vars, mg_vars, gs_vars, wp_vars, st_vars, sm_vars, ga_vars>>
CliFrame == UNCHANGED <<tm_vars, ts_vars, mg_vars, gs_vars, wp_vars, st_vars, sm_vars, ga_vars>>
TsFrame == UNCHANGED <<tr_vars, tts_vars, tm_vars, cli_vars, mg_vars, gs_vars, wp_vars, st_vars, sm_vars, ga_vars>>
MgFrame == UNCHANGED <<tr_vars, tts_vars, tm_vars, cli_vars, ts_vars, gs_vars, wp_vars, st_vars, sm_vars, ga_vars>>
GsFrame == UNCHANGED <<tr_vars, tts_vars, tm_vars, cli_vars, ts_vars, mg_vars, wp_vars, st_vars, sm_vars, ga_vars>>
WpFrame == UNCHANGED <<tr_vars, tts_vars, tm_vars, cli_vars, ts_vars, mg_vars, gs_vars, st_vars, sm_vars, ga_vars>>
StFrame == UNCHANGED <<tr_vars, tts_vars, tm_vars, cli_vars, ts_vars, mg_vars, gs_vars,
                       wp_vars, sm_vars, ga_vars>>
SmFrame == UNCHANGED <<tr_vars, tts_vars, tm_vars, cli_vars, ts_vars, mg_vars, gs_vars,
                       wp_vars, st_vars, ga_vars>>
GaFrame == UNCHANGED <<tr_vars, tts_vars, tm_vars, cli_vars, ts_vars, mg_vars, gs_vars,
                       wp_vars, st_vars, sm_vars>>

\* ------------------------------------------------------------ text helpers
Min(a, b) == IF a < b THEN a ELSE b

\* Mutant: the later value replaces the earlier one
MaxLatest(a, b) == b

Max(a, b) == IF a > b THEN a ELSE b

DigitChars == <<"0", "1", "2", "3", "4", "5", "6", "7", "8", "9">>

IsDigit(c) == \E d \in 1..10 : DigitChars[d] = c
DigitVal(c) == (CHOOSE d \in 1..10 : DigitChars[d] = c) - 1

\* str(k) for a natural number k
RECURSIVE NatToStr(_)
NatToStr(k) ==
    IF k < 10 THEN <<DigitChars[k + 1]>>
    ELSE NatToStr(k \div 10) \o <<DigitChars[(k % 10) + 1]>>

IsSpace(c) == c = " "

RECURSIVE LStrip(_)
LStrip(s) == IF s # <<>> /\ IsSpace(Head(s)) THEN LStrip(Tail(s)) ELSE s

RECURSIVE RStrip(_)
RStrip(s) ==
    IF s # <<>> /\ IsSpace(s[Len(s)]) THEN RStrip(SubSeq(s, 1, Len(s) - 1)) ELSE s

\* str.strip() of one line
Strip(s) == LStrip(RStrip(s))

\* str.index(c): the 0-based position of the first c, -1 standing for ValueError
StrIndex(s, c) ==
    IF \E k \in 1..Len(s) : s[k] = c
    THEN (CHOOSE k \in 1..Len(s) : s[k] = c /\ \A j \in 1..(k - 1) : s[j] # c) - 1
    ELSE -1

RECURSIVE DigitsVal(_)
DigitsVal(s) ==
    IF s = <<>> THEN 0 ELSE DigitsVal(SubSeq(s, 1, Len(s) - 1)) * 10 + DigitVal(s[Len(s)])

\* int(s): surrounding blanks are ignored, an optional sign, then digits only.
\* ok = FALSE stands for ValueError.
PyInt(s) ==
    LET t    == Strip(s)
        neg  == t # <<>> /\ Head(t) = "-"
        body == IF t # <<>> /\ Head(t) \in {"-", "+"} THEN Tail(t) ELSE t
    IN  IF body # <<>> /\ \A k \in 1..Len(body) : IsDigit(body[k])
        THEN [ok |-> TRUE, val |-> IF neg THEN 0 - DigitsVal(body) ELSE DigitsVal(body)]
        ELSE [ok |-> FALSE, val |-> 0]

\* ---------------------------------------------------------------- segments
NoConfidence == -1

\* The text of the source segment of Python index k
SrcText(k) == <<"s">> \o NatToStr(k)

\* SubtitleSegment(start_time, end_time, text, confidence)
SubtitleSegment(st, en, tx, cf) ==
    [start_time |-> st, end_time |-> en, text |-> tx, confidence |-> cf]

\* The transcript segment of Python index k: a 2 second window each
InputSegment(k) ==
    SubtitleSegment(20 * k, 20 * k + 20, SrcText(k),
                    IF k % 3 = 2 THEN NoConfidence ELSE 90 + (k % 3))

InputSegments(n) == [k \in 1..n |-> InputSegment(k - 1)]

\* --------------------------------------------- translate_segments: parsing
BatchSize == 10

\* Lines a translation response is made of
ResponseLines ==
    { <<"[", "0", "]", " ", "a">>,      \* [0] a
      <<"[", "1", "]", " ", "b">>,      \* [1] b
      <<"[", "2", "]", "c", " ">>,      \* [2]c followed by a blank
      <<"[", " ", "1", "]", "d">>,      \* [ 1]d      int(" 1") = 1
      <<" ", "[", "1", "]", "e">>,      \* indented   " [1]e"
      <<"[", "x", "]", "a">>,           \* [x]a       int raises ValueError
      <<" ">> }                         \* a blank line

RECURSIVE SeqsUpTo(_, _)
SeqsUpTo(S, n) ==
    IF n = 0 THEN {<<>>}
    ELSE LET shorter == SeqsUpTo(S, n - 1)
         IN  shorter \cup {Append(q, x) : q \in {r \in shorter : Len(r) = n - 1}, x \in S}

\* response.text values: a sequence of lines, joined by "\n" in the program
Responses == SeqsUpTo(ResponseLines, MaxLines)

IsBlank(line) == Strip(line) = <<>>

RECURSIVE DropLeadingBlank(_)
DropLeadingBlank(lines) ==
    IF lines # <<>> /\ IsBlank(Head(lines)) THEN DropLeadingBlank(Tail(lines)) ELSE lines

RECURSIVE DropTrailingBlank(_)
DropTrailingBlank(lines) ==
    IF lines # <<>> /\ IsBlank(lines[Len(lines)])
    THEN DropTrailingBlank(SubSeq(lines, 1, Len(lines) - 1))
    ELSE lines

\* translated_text.strip().split("\n")
StripSplit(lines) ==
    LET core == DropTrailingBlank(DropLeadingBlank(lines))
    IN  IF core = <<>> THEN << <<>> >>
        ELSE [k \in 1..Len(core) |->
                LET a == IF k = 1 THEN LStrip(core[k]) ELSE core[k]
                IN  IF k = Len(core) THEN RStrip(a) ELSE a]

\* The body of the loop over the response lines: translations after `line`
ParseLine(translations, line) ==
    IF Strip(line) # <<>> /\ line # <<>> /\ Head(line) = "["
    THEN LET idx_end == StrIndex(line, "]")
         IN  IF idx_end < 0 THEN translations
             ELSE LET idx == PyInt(SubSeq(line, 2, idx_end))
                      translation == Strip(SubSeq(line, idx_end + 2, Len(line)))
                  IN  IF ~idx.ok THEN translations
                      ELSE [k \in (DOMAIN translations) \cup {idx.val} |->
                              IF k = idx.val THEN translation ELSE translations[k]]
    ELSE translations

RECURSIVE ParseLines(_, _)
ParseLines(translations, lines) ==
    IF lines = <<>> THEN translations
    ELSE ParseLines(ParseLine(translations, Head(lines)), Tail(lines))

EmptyDict == [k \in {} |-> <<>>]

\* The dict `translations` built from response.text
ParseTranslations(response) == ParseLines(EmptyDict, StripSplit(response))

\* dict.get(key, default)
DictGet(d, key, default) == IF key \in DOMAIN d THEN d[key] ELSE default

\* segments[i : i + batch_size]
Batch(segs, i) == SubSeq(segs, i + 1, Min(i + BatchSize, Len(segs)))

\* Mutant: an index missing from the response is skipped instead of falling back
TranslatedBatchSkipMissing(batch, response) ==
    LET translations == ParseTranslations(response)
        kept == SelectSeq([p \in 1..Len(batch) |-> p],
                          LAMBDA p : (p - 1) \in DOMAIN translations)
    IN  [q \in 1..Len(kept) |->
            SubtitleSegment(batch[kept[q]].start_time, batch[kept[q]].end_time,
                            translations[kept[q] - 1], batch[kept[q]].confidence)]

\* Mutant: the response tags are read as 1-based positions
TranslatedBatchOffByOne(batch, response) ==
    LET translations == ParseTranslations(response)
    IN  [p \in 1..Len(batch) |->
            SubtitleSegment(batch[p].start_time, batch[p].end_time,
                            DictGet(translations, p, batch[p].text),
                            batch[p].confidence)]

\* Mutant: the confidence is not copied to the translated segment
TranslatedBatchNoConfidence(batch, response) ==
    LET translations == ParseTranslations(response)
    IN  [p \in 1..Len(batch) |->
            SubtitleSegment(batch[p].start_time, batch[p].end_time,
                            DictGet(translations, p - 1, batch[p].text),
                            NoConfidence)]

\* The segments appended for a batch whose call returned `response`
TranslatedBatch(batch, response) ==
    LET translations == ParseTranslations(response)
    IN  [p \in 1..Len(batch) |->
            SubtitleSegment(batch[p].start_time, batch[p].end_time,
                            DictGet(translations, p - 1, batch[p].text),
                            batch[p].confidence)]

\* Mutant: the exception handler appends nothing
FallbackBatchDropped(batch) == SubSeq(batch, 1, 0)

\* The segments appended for a batch whose call raised
FallbackBatch(batch) ==
    [p \in 1..Len(batch) |->
        SubtitleSegment(batch[p].start_time, batch[p].end_time,
                        batch[p].text, batch[p].confidence)]

\* ------------------------------------------- translate_segments: the steps
\* Mutant: the delay also precedes the first call
TrCallAlwaysSleeps(i, outcome) == [start |-> i, slept |-> TRUE, outcome |-> outcome]

\* One translation call: the index its batch starts at, whether
\* time.sleep(1) preceded it (if i > 0) and how it ended
TrCall(i, outcome) == [start |-> i, slept |-> i > 0, outcome |-> outcome]

\* One iteration of the batch loop, the translation call returning `response`
TranslateBatchReturns ==
    /\ tr_pc = "loop"
    /\ tr_i < Len(segments)
    /\ \E response \in Responses :
        /\ translated_segments' =
               translated_segments \o TranslatedBatch(Batch(segments, tr_i), response)
        /\ tr_response' = response
    /\ tr_calls' = Append(tr_calls, TrCall(tr_i, "returned"))
    /\ tr_i' = tr_i + BatchSize
    /\ UNCHANGED <<segments, tr_pc>>
    /\ TrFrame

\* One iteration of the batch loop, the translation call (or reading
\* response.text) raising
TranslateBatchRaises ==
    /\ tr_pc = "loop"
    /\ tr_i < Len(segments)
    /\ translated_segments' = translated_segments \o FallbackBatch(Batch(segments, tr_i))
    /\ tr_calls' = Append(tr_calls, TrCall(tr_i, "raised"))
    /\ tr_i' = tr_i + BatchSize
    /\ UNCHANGED <<segments, tr_pc, tr_response>>
    /\ TrFrame

\* The loop is exhausted: return translated_segments
TranslateReturn ==
    /\ tr_pc = "loop"
    /\ tr_i >= Len(segments)
    /\ tr_pc' = "done"
    /\ UNCHANGED <<segments, translated_segments, tr_i, tr_calls, tr_response>>
    /\ TrFrame

\* ------------------------------- generate_speech_for_segments: helpers
\* f"{idx:04d}"
RECURSIVE ZeroPad4(_)
ZeroPad4(ds) == IF Len(ds) >= 4 THEN ds ELSE ZeroPad4(<<"0">> \o ds)

\* The stem of config.temp_dir / f"segment_{idx:04d}.wav"
SegmentPath(idx) == <<"s", "e", "g", "m", "e", "n", "t", "_">> \o ZeroPad4(NatToStr(idx))

EmptyWavPath == <<"e", "m", "p", "t", "y">>

\* path.stem.split("_")[-1]
RECURSIVE LastField(_)
LastField(stem) ==
    IF \E k \in 1..Len(stem) : stem[k] = "_"
    THEN LastField(SubSeq(stem, StrIndex(stem, "_") + 2, Len(stem)))
    ELSE stem

\* The text of a translated text of Python index k
TrText(k) == <<"t">> \o NatToStr(k)

TranslatedTexts(m) == [k \in 1..m |-> TrText(k - 1)]

\* The size in bytes of the clip written for segment idx (44 byte header)
ClipSize(idx) == 44 + 2 * (idx + 1)

\* expected_count
ExpectedCount(segs, texts) == IF texts # <<>> THEN Len(texts) ELSE Len(segs)

\* Mutant: the translated texts are ignored
TextForSegmentOnly(segs, texts, idx) == segs[idx + 1].text

\* The text chosen for segment idx
TextFor(segs, texts, idx) ==
    IF texts # <<>> /\ idx < Len(texts) THEN texts[idx + 1] ELSE segs[idx + 1].text

\* One (idx, segment, segment_audio_path, task, text) tuple
Task(segs, texts, idx) ==
    [idx |-> idx, segment |-> segs[idx + 1], audio_path |-> SegmentPath(idx),
     text |-> TextFor(segs, texts, idx)]

\* The entry appended to segments_data for a task
SegmentEntry(t) ==
    [start_time |-> t.segment.start_time, end_time |-> t.segment.end_time,
     text |-> t.text, audio_path |-> t.audio_path]

\* " ".join(parts)
RECURSIVE JoinBlank(_)
JoinBlank(parts) ==
    IF parts = <<>> THEN <<>>
    ELSE IF Len(parts) = 1 THEN parts[1]
    ELSE parts[1] \o <<" ">> \o JoinBlank(Tail(parts))

\* generated_indices: the indices read back from the paths of segments_data
GeneratedIndices(data) ==
    {PyInt(LastField(data[k].audio_path)).val :
        k \in {j \in 1..Len(data) : PyInt(LastField(data[j].audio_path)).ok}}

\* [idx for idx in range(from, expected) if idx not in generated]
RECURSIVE MissingFrom(_, _, _)
MissingFrom(from, expected, generated) ==
    IF from >= expected THEN <<>>
    ELSE (IF from \notin generated THEN <<from>> ELSE <<>>)
         \o MissingFrom(from + 1, expected, generated)

\* Mutant: every index counts as missing, generated or not
MissingAfterFirstPassAll(expected, data) == MissingFrom(0, expected, {})

\* missing_indices as computed after the first pass
MissingAfterFirstPass(expected, data) ==
    MissingFrom(0, expected, GeneratedIndices(data))

SeqToSet(q) == {q[k] : k \in 1..Len(q)}

\* The reconciliation loop's bound (max_retries)
MaxReconcilePasses == 2

NoResult == [returned |-> FALSE]

\* Mutant: the metadata lists the main clip only
TTSResultMainFileOnly(files, duration, parts, size, data) ==
    [returned   |-> TRUE,
     audio_file |-> IF files # <<>> THEN files[1] ELSE EmptyWavPath,
     duration   |-> duration,
     text       |-> JoinBlank(parts),
     language   |-> "ja",
     format     |-> "wav",
     file_size  |-> size,
     segments   |-> data,
     metadata   |-> [key \in {"audio_files"} |-> IF files # <<>> THEN <<files[1]>> ELSE <<>>]]

\* The TTSResult built at return
TTSResult(files, duration, parts, size, data) ==
    [returned   |-> TRUE,
     audio_file |-> IF files # <<>> THEN files[1] ELSE EmptyWavPath,
     duration   |-> duration,
     text       |-> JoinBlank(parts),
     language   |-> "ja",
     format     |-> "wav",
     file_size  |-> size,
     segments   |-> data,
     metadata   |-> [key \in {"audio_files"} |-> files]]

\* ---------------------------------- generate_speech_for_segments: steps
GenCall(idx, ok) == [idx |-> idx, pass |-> retry_count, ok |-> ok]

TtsStart(segs, texts) ==
    /\ tts_segments = segs
    /\ translated_texts = texts
    /\ tts_pc = "tasks"
    /\ tasks = <<>>
    /\ tts_k = 0
    /\ audio_files = <<>>
    /\ segments_data = <<>>
    /\ full_text_parts = <<>>
    /\ total_duration = 0
    /\ total_size = 0
    /\ missing_indices = <<>>
    /\ retry_count = 0
    /\ newly_generated = <<>>
    /\ fs = [path \in {} |-> 0]
    /\ gen_log = <<>>
    /\ running = {}
    /\ tts_result = NoResult

\* The loop creating one generation task per segment (tts.py 309-326)
CreateTasks ==
    /\ tts_pc = "tasks"
    /\ tasks' = [k \in 1..Len(tts_segments) |-> Task(tts_segments, translated_texts, k - 1)]
    /\ full_text_parts' =
           [k \in 1..Len(tts_segments) |-> TextFor(tts_segments, translated_texts, k - 1)]
    /\ tts_k' = 0
    /\ tts_pc' = "first"
    /\ UNCHANGED <<tts_segments, translated_texts, audio_files, segments_data,
                   total_duration, total_size, missing_indices, retry_count,
                   newly_generated, fs, gen_log, running, tts_result>>
    /\ TtsFrame

\* What a pass does with a task whose generation wrote its clip and returned
\* the path.  `recon` is TRUE in a reconciliation pass.
RecordClip(t, recon) ==
    /\ running = {t.idx}
    /\ running' = {}
    /\ fs' = [path \in (DOMAIN fs) \cup {t.audio_path} |->
                 IF path = t.audio_path THEN ClipSize(t.idx) ELSE fs[path]]
    /\ audio_files' = Append(audio_files, t.audio_path)
    /\ total_size' = total_size + ClipSize(t.idx)
    /\ segments_data' = Append(segments_data, SegmentEntry(t))
    /\ total_duration' = Max(total_duration, t.segment.end_time)
    /\ newly_generated' = IF recon THEN Append(newly_generated, t.idx) ELSE newly_generated
    /\ gen_log' = Append(gen_log, GenCall(t.idx, TRUE))

\* What a pass does with a task whose generation returned None or raised
RecordFailure(t) ==
    /\ running = {t.idx}
    /\ running' = {}
    /\ gen_log' = Append(gen_log, GenCall(t.idx, FALSE))
    /\ UNCHANGED <<fs, audio_files, total_size, segments_data, total_duration,
                   newly_generated>>

\* `await task`: the coroutine object of the next task starts to execute.
\* generate_speech_segment(...) at task creation only builds the coroutine
\* object; its body runs while it is awaited (tts.py 331, 415)
AwaitBegins ==
    /\ tts_pc \in {"first", "retry_run"}
    /\ tts_k < Len(tasks)
    /\ running = {}
    /\ running' = {tasks[tts_k + 1].idx}
    /\ UNCHANGED <<tts_segments, translated_texts, tts_pc, tasks, tts_k, audio_files,
                   segments_data, full_text_parts, total_duration, total_size,
                   missing_indices, retry_count, newly_generated, fs, gen_log,
                   tts_result>>
    /\ TtsFrame

\* First pass: the awaited task wrote its clip (tts.py 331-344)
AwaitFirstGenerated ==
    /\ tts_pc = "first"
    /\ tts_k < Len(tasks)
    /\ RecordClip(tasks[tts_k + 1], FALSE)
    /\ tts_k' = tts_k + 1
    /\ UNCHANGED <<tts_segments, translated_texts, tts_pc, tasks, full_text_parts,
                   missing_indices, retry_count, tts_result>>
    /\ TtsFrame

\* First pass: the awaited task returned None (tts.py 331-332)
AwaitFirstNone ==
    /\ tts_pc = "first"
    /\ tts_k < Len(tasks)
    /\ RecordFailure(tasks[tts_k + 1])
    /\ tts_k' = tts_k + 1
    /\ UNCHANGED <<tts_segments, translated_texts, tts_pc, tasks, full_text_parts,
                   missing_indices, retry_count, tts_result>>
    /\ TtsFrame

\* First pass: the awaited task raised (tts.py 345-348)
AwaitFirstRaised ==
    /\ tts_pc = "first"
    /\ tts_k < Len(tasks)
    /\ RecordFailure(tasks[tts_k + 1])
    /\ tts_k' = tts_k + 1
    /\ UNCHANGED <<tts_segments, translated_texts, tts_pc, tasks, full_text_parts,
                   missing_indices, retry_count, tts_result>>
    /\ TtsFrame

\* Whether the count check after the first pass starts the reconciliation
NeedsReconciliation(files, expected) == Len(files) # expected

\* Check 2 after the first pass (tts.py 354-385)
CheckCounts ==
    /\ tts_pc = "first"
    /\ tts_k = Len(tasks)
    /\ LET expected == ExpectedCount(tts_segments, translated_texts)
           missing  == IF NeedsReconciliation(audio_files, expected)
                       THEN MissingAfterFirstPass(expected, segments_data)
                       ELSE <<>>
       IN  /\ missing_indices' = missing
           /\ tts_pc' = IF missing # <<>> THEN "retry" ELSE "final"
    /\ retry_count' = 0
    /\ UNCHANGED <<tts_segments, translated_texts, tasks, tts_k, audio_files,
                   segments_data, full_text_parts, total_duration, total_size,
                   newly_generated, fs, gen_log, running, tts_result>>
    /\ TtsFrame

\* retry_tasks: one task per missing index that names a segment
RetryTasks(segs, texts, missing) ==
    LET idxs == SelectSeq(missing, LAMBDA idx : idx < Len(segs))
    IN  [k \in 1..Len(idxs) |-> Task(segs, texts, idxs[k])]

\* Mutant: the loop goes on until nothing is missing
RetryLoopUntilComplete(missing, count) == missing # <<>>

\* while missing_indices and retry_count < max_retries
RetryLoopContinues(missing, count) == missing # <<>> /\ count < MaxReconcilePasses

\* The head of the reconciliation loop, entering a pass (tts.py 387-409)
RetryPassStart ==
    /\ tts_pc = "retry"
    /\ RetryLoopContinues(missing_indices, retry_count)
    /\ retry_count' = retry_count + 1
    /\ tasks' = RetryTasks(tts_segments, translated_texts, missing_indices)
    /\ newly_generated' = <<>>
    /\ tts_k' = 0
    /\ tts_pc' = "retry_run"
    /\ UNCHANGED <<tts_segments, translated_texts, audio_files, segments_data,
                   full_text_parts, total_duration, total_size, missing_indices,
                   fs, gen_log, running, tts_result>>
    /\ TtsFrame

\* The head of the reconciliation loop, leaving it (tts.py 387, 438-444)
RetryLoopExit ==
    /\ tts_pc = "retry"
    /\ ~RetryLoopContinues(missing_indices, retry_count)
    /\ tts_pc' = "final"
    /\ UNCHANGED <<tts_segments, translated_texts, tasks, tts_k, audio_files,
                   segments_data, full_text_parts, total_duration, total_size,
                   missing_indices, retry_count, newly_generated, fs, gen_log,
                   running, tts_result>>
    /\ TtsFrame

\* Reconciliation pass: the awaited task wrote its clip (tts.py 415-429)
AwaitRetryGenerated ==
    /\ tts_pc = "retry_run"
    /\ tts_k < Len(tasks)
    /\ RecordClip(tasks[tts_k + 1], TRUE)
    /\ tts_k' = tts_k + 1
    /\ UNCHANGED <<tts_segments, translated_texts, tts_pc, tasks, full_text_parts,
                   missing_indices, retry_count, tts_result>>
    /\ TtsFrame

\* Reconciliation pass: the awaited task returned None (tts.py 415-416)
AwaitRetryNone ==
    /\ tts_pc = "retry_run"
    /\ tts_k < Len(tasks)
    /\ RecordFailure(tasks[tts_k + 1])
    /\ tts_k' = tts_k + 1
    /\ UNCHANGED <<tts_segments, translated_texts, tts_pc, tasks, full_text_parts,
                   missing_indices, retry_count, tts_result>>
    /\ TtsFrame

\* Reconciliation pass: the awaited task raised (tts.py 430-433)
AwaitRetryRaised ==
    /\ tts_pc = "retry_run"
    /\ tts_k < Len(tasks)
    /\ RecordFailure(tasks[tts_k + 1])
    /\ tts_k' = tts_k + 1
    /\ UNCHANGED <<tts_segments, translated_texts, tts_pc, tasks, full_text_parts,
                   missing_indices, retry_count, tts_result>>
    /\ TtsFrame

\* The end of a reconciliation pass (tts.py 436)
RetryPassEnd ==
    /\ tts_pc = "retry_run"
    /\ tts_k = Len(tasks)
    /\ missing_indices' =
           SelectSeq(missing_indices, LAMBDA idx : idx \notin SeqToSet(newly_generated))
    /\ tts_pc' = "retry"
    /\ UNCHANGED <<tts_segments, translated_texts, tasks, tts_k, audio_files,
                   segments_data, full_text_parts, total_duration, total_size,
                   retry_count, newly_generated, fs, gen_log, running, tts_result>>
    /\ TtsFrame

\* Mutant: a partial result is refused (nothing is returned when a segment
\* is missing)
ReturnValueAllOrNothing(files, duration, parts, size, data) ==
    IF Len(files) = Len(parts) THEN TTSResult(files, duration, parts, size, data)
    ELSE NoResult

\* The value handed back by generate_speech_for_segments (tts.py 446-460)
ReturnValue(files, duration, parts, size, data) ==
    TTSResult(files, duration, parts, size, data)

\* return TTSResult(...) (tts.py 446-460)
TtsReturn ==
    /\ tts_pc = "final"
    /\ tts_result' = ReturnValue(audio_files, total_duration, full_text_parts,
                                 total_size, segments_data)
    /\ tts_pc' = "done"
    /\ UNCHANGED <<tts_segments, translated_texts, tasks, tts_k, audio_files,
                   segments_data, full_text_parts, total_duration, total_size,
                   missing_indices, retry_count, newly_generated, fs, gen_log,
                   running>>
    /\ TtsFrame

TtsStep ==
    \/ CreateTasks
    \/ AwaitBegins
    \/ AwaitFirstGenerated
    \/ AwaitFirstNone
    \/ AwaitFirstRaised
    \/ CheckCounts
    \/ RetryPassStart
    \/ RetryLoopExit
    \/ AwaitRetryGenerated
    \/ AwaitRetryNone
    \/ AwaitRetryRaised
    \/ RetryPassEnd
    \/ TtsReturn

\* ------------------------------------------ generate_speech_with_timing
\* Fractions <<n, d>> with d > 0, kept in lowest terms
RECURSIVE Gcd(_, _)
Gcd(a, b) == IF b = 0 THEN a ELSE Gcd(b, a % b)

Frac(n, d) == LET g == Gcd(n, d) IN <<n \div g, d \div g>>

FracLess(x, y) == x[1] * y[2] < y[1] * x[2]

FracMin(x, y) == IF FracLess(y, x) THEN y ELSE x

NoClip == -1

NoTiming == [returned |-> FALSE]

\* Mutant: no tolerance above the window
OverrunsNoTolerance(audio_duration, segment_duration) == audio_duration > segment_duration

\* audio_duration > segment_duration * 1.1
Overruns(audio_duration, segment_duration) == 10 * audio_duration > 11 * segment_duration

\* Mutant: the new speed factor is not capped
NewSpeedFactorUncapped(speed, audio_duration, segment_duration) ==
    Frac(speed[1] * audio_duration, speed[2] * segment_duration)

\* min(2.0, speed_factor * (audio_duration / segment_duration))
NewSpeedFactor(speed, audio_duration, segment_duration) ==
    FracMin(Frac(2, 1), Frac(speed[1] * audio_duration, speed[2] * segment_duration))

\* adjust_prompt_for_speed: the directive put in front of the prompt
SpeedInstruction(speed) ==
    LET n == speed[1]
        d == speed[2]
        dev == IF n >= d THEN n - d ELSE d - n
    IN  IF 20 * dev < d THEN "none"                 \* abs(speed - 1.0) < 0.05
        ELSE IF 2 * n > 3 * d THEN "very quickly"   \* > 1.5
        ELSE IF 5 * n > 6 * d THEN "quickly"        \* > 1.2
        ELSE IF n > d THEN "somewhat quickly"       \* > 1.0
        ELSE IF 10 * n < 7 * d THEN "very slowly"   \* < 0.7
        ELSE IF 10 * n < 9 * d THEN "slowly"        \* < 0.9
        ELSE "somewhat slowly"

\* What one call of generate_speech_with_prompt yields: a clip written to
\* output_path, or no clip once its own retries are used up.  The method is
\* called at tts_with_prompts.py 132 and defined in no file of the sources.
GenerateSpeechWithPrompt == {"clip", "none"}

\* Durations get_audio_duration measures (0 when ffprobe fails)
ClipDurations == {0, 10, 21, 22, 23, 44}

\* Windows of the segments handed in
Windows == {10, 20}

TmStart(window, max_attempts) ==
    /\ tm_pc = "loop"
    /\ tm_window = window
    /\ tm_max_attempts = max_attempts
    /\ tm_attempt = 0
    /\ tm_speed = Frac(1, 1)
    /\ tm_clip = NoClip
    /\ tm_calls = <<>>
    /\ tm_result = NoTiming

\* Mutant: the loop condition lets one attempt too many through
LoopContinuesOneMore(attempt, max_attempts) == attempt <= max_attempts

\* while attempt < max_attempts
LoopContinues(attempt, max_attempts) == attempt < max_attempts

\* Mutant: the last attempt is treated like the earlier ones
AttemptsRemainThroughLast(attempt, max_attempts) == attempt <= max_attempts

\* if attempt < max_attempts, asked after attempt was incremented  (144)
AttemptsRemain(attempt, max_attempts) == attempt < max_attempts

\* One generation call: the speed factor and directive it was made with and
\* what it produced (the measured duration of the clip, or NoClip)
TmCall(produced) ==
    [speed |-> tm_speed, instruction |-> SpeedInstruction(tm_speed), produced |-> produced]

\* An attempt whose generation wrote a clip that fits, or whose clip overruns
\* on the last attempt: return (output_path, audio_duration)  (97-159)
AttemptAccepted ==
    /\ tm_pc = "loop"
    /\ LoopContinues(tm_attempt, tm_max_attempts)
    /\ "clip" \in GenerateSpeechWithPrompt
    /\ \E audio_duration \in ClipDurations :
        /\ \/ ~Overruns(audio_duration, tm_window)
           \/ ~AttemptsRemain(tm_attempt + 1, tm_max_attempts)
        /\ tm_clip' = audio_duration
        /\ tm_result' = [returned |-> TRUE, path |-> TRUE, duration |-> audio_duration]
        /\ tm_calls' = Append(tm_calls, TmCall(audio_duration))
    /\ tm_attempt' = tm_attempt + 1
    /\ tm_pc' = "done"
    /\ UNCHANGED <<tm_window, tm_max_attempts, tm_speed>>
    /\ TmFrame

\* An attempt whose clip overruns with attempts left: raise the speed
\* factor, delete the clip, continue  (140-152)
AttemptOverrun ==
    /\ tm_pc = "loop"
    /\ LoopContinues(tm_attempt, tm_max_attempts)
    /\ AttemptsRemain(tm_attempt + 1, tm_max_attempts)
    /\ "clip" \in GenerateSpeechWithPrompt
    /\ \E audio_duration \in ClipDurations :
        /\ Overruns(audio_duration, tm_window)
        /\ tm_speed' = NewSpeedFactor(tm_speed, audio_duration, tm_window)
        /\ tm_calls' = Append(tm_calls, TmCall(audio_duration))
    /\ tm_clip' = NoClip
    /\ tm_attempt' = tm_attempt + 1
    /\ UNCHANGED <<tm_pc, tm_window, tm_max_attempts, tm_result>>
    /\ TmFrame

\* An attempt whose generation produced no clip  (161-164)
AttemptFailed ==
    /\ tm_pc = "loop"
    /\ LoopContinues(tm_attempt, tm_max_attempts)
    /\ "none" \in GenerateSpeechWithPrompt
    /\ tm_attempt' = tm_attempt + 1
    /\ tm_calls' = Append(tm_calls, TmCall(NoClip))
    /\ UNCHANGED <<tm_pc, tm_window, tm_max_attempts, tm_speed, tm_clip, tm_result>>
    /\ TmFrame

\* The loop is exhausted: return (None, 0.0)  (166)
TimingGiveUp ==
    /\ tm_pc = "loop"
    /\ ~LoopContinues(tm_attempt, tm_max_attempts)
    /\ tm_result' = [returned |-> TRUE, path |-> FALSE, duration |-> 0]
    /\ tm_pc' = "done"
    /\ UNCHANGED <<tm_window, tm_max_attempts, tm_attempt, tm_speed, tm_clip, tm_calls>>
    /\ TmFrame

TmStep == AttemptAccepted \/ AttemptOverrun \/ AttemptFailed \/ TimingGiveUp

\* -------------------------------------------------------- transcribe_audio
\* config.temp_dir / "audio.wav"
AudioPath == <<"a", "u", "d", "i", "o", ".", "w", "a", "v">>

\* self.temp_dir / f"audio_segment_{i}.wav"
ChunkPath(i) ==
    <<"a", "u", "d", "i", "o", "_", "s", "e", "g", "m", "e", "n", "t", "_">>
        \o NatToStr(i) \o <<".", "w", "a", "v">>

\* file_size_mb > 20
SizeLimitMB == 20

\* split_audio(audio_path): max_duration takes its default
SplitMaxDuration == 300

\* int(total_duration / max_duration) + 1
NumChunks(total, max_duration) == (total \div max_duration) + 1

\* The literal of time_offset = i * 300
OffsetPerChunk == 300

\* Mutant: the offset counts chunks from 1
TimeOffsetFromOne(i) == (i + 1) * OffsetPerChunk

\* time_offset = i * 300
TimeOffset(i) == i * OffsetPerChunk

\* detected_language before the first chunk reported one (None)
NoLanguage == "None"

\* Mutant: every chunk overwrites the detected language
DetectedLanguageLatest(detected, reported) == reported

\* if detected_language is None: detected_language = transcription.language
DetectedLanguage(detected, reported) ==
    IF detected = NoLanguage THEN reported ELSE detected

\* detected_language or "unknown"
LanguageOrUnknown(detected) == IF detected = NoLanguage THEN "unknown" ELSE detected

\* Languages the recognition reports
Languages == {"en", "ja"}

\* Audio files handed in: size in MB and length in seconds
AudioFiles == [size_mb : {20, 21}, duration : {250, 300, 450, 700}]

\* The j-th segment (from 0) of a recognition response, with timestamps
\* relative to the start of the file sent; only odd ones carry a confidence
RawSegment(j) ==
    [start |-> 4 * j, end |-> 4 * j + 3,
     text |-> <<" ", "r">> \o NatToStr(j) \o <<" ">>,
     confidence |-> IF j % 2 = 1 THEN 90 ELSE NoConfidence]

\* transcription.text of chunk i
ChunkText(i) == <<"c">> \o NatToStr(i)

\* The verbose_json responses of the recognition call: with n segments, or
\* without a segments attribute
ChunkResponses ==
    [language : Languages, has_segments : {TRUE},
     segments : {[j \in 1..n |-> RawSegment(j - 1)] : n \in 0..MaxChunkSegments}]
    \cup [language : Languages, has_segments : {FALSE}, segments : {<<>>}]

\* What the inner loop appends to all_segments for chunk i
RECURSIVE ShiftedSegments(_, _)
ShiftedSegments(raw, i) ==
    IF raw = <<>> THEN <<>>
    ELSE <<SubtitleSegment(raw[1].start + TimeOffset(i), raw[1].end + TimeOffset(i),
                           Strip(raw[1].text), raw[1].confidence)>>
         \o ShiftedSegments(Tail(raw), i)

\* total_duration after the inner loop ran over the new segments
RECURSIVE TrackDuration(_, _)
TrackDuration(total, segs) ==
    IF segs = <<>> THEN total
    ELSE TrackDuration(IF segs[1].end_time > total THEN segs[1].end_time ELSE total,
                       Tail(segs))

NoTranscription == [returned |-> FALSE]

\* TranscriptionResult(full_text, segments, language, duration)
TranscriptionResult(full_text, segs, language, duration) ==
    [returned |-> TRUE, full_text |-> JoinBlank(full_text), segments |-> segs,
     language |-> language, duration |-> duration]

\* Mutant: the handler returns what was transcribed so far
ExceptHandlerReturnsPartial(e, full_text, segs, language, duration) ==
    TranscriptionResult(full_text, segs, language, duration)

\* except Exception as e: print, raise -- the caught exception itself leaves
\* the call and nothing is returned  (165-167)
ExceptHandler(e, full_text, segs, language, duration) ==
    [returned |-> FALSE, error |-> e]

\* Where the file at path starts in the audio
CutOf(path) == IF path = AudioPath THEN 0 ELSE ts_files[path]

TsStart(audio) ==
    /\ ts_pc = "start"
    /\ ts_audio = audio
    /\ ts_split_i = 0
    /\ ts_segment_paths = <<>>
    /\ ts_audio_segments = <<>>
    /\ ts_i = 0
    /\ ts_all_segments = <<>>
    /\ ts_detected_language = NoLanguage
    /\ ts_full_text = <<>>
    /\ ts_total_duration = 0
    /\ ts_files = [path \in {} |-> 0]
    /\ ts_calls = <<>>
    /\ ts_result = NoTranscription

\* The loop variables are created once audio_segments is known (107-110)
TsEnterLoop(paths) ==
    /\ ts_audio_segments' = paths
    /\ ts_pc' = "loop"
    /\ ts_i' = 0
    /\ UNCHANGED <<ts_all_segments, ts_detected_language, ts_full_text, ts_total_duration>>

\* A file of at most 20 MB is transcribed whole  (100-110)
TsSmallFile ==
    /\ ts_pc = "start"
    /\ ~(ts_audio.size_mb > SizeLimitMB)
    /\ TsEnterLoop(<<AudioPath>>)
    /\ UNCHANGED <<ts_audio, ts_split_i, ts_segment_paths, ts_files, ts_calls, ts_result>>
    /\ TsFrame

\* A larger file goes to split_audio  (102-103)
TsLargeFile ==
    /\ ts_pc = "start"
    /\ ts_audio.size_mb > SizeLimitMB
    /\ ts_pc' = "probe"
    /\ UNCHANGED <<ts_audio, ts_split_i, ts_segment_paths, ts_audio_segments, ts_i,
                   ts_all_segments, ts_detected_language, ts_full_text,
                   ts_total_duration, ts_files, ts_calls, ts_result>>
    /\ TsFrame

\* split_audio: the audio is no longer than max_duration, return [audio_path]
SplitNotNeeded ==
    /\ ts_pc = "probe"
    /\ ts_audio.duration <= SplitMaxDuration
    /\ TsEnterLoop(<<AudioPath>>)
    /\ UNCHANGED <<ts_audio, ts_split_i, ts_segment_paths, ts_files, ts_calls, ts_result>>
    /\ TsFrame

\* split_audio: the audio is longer, start cutting  (65-69)
SplitBegin ==
    /\ ts_pc = "probe"
    /\ ts_audio.duration > SplitMaxDuration
    /\ ts_pc' = "split"
    /\ ts_split_i' = 0
    /\ ts_segment_paths' = <<>>
    /\ UNCHANGED <<ts_audio, ts_audio_segments, ts_i, ts_all_segments,
                   ts_detected_language, ts_full_text, ts_total_duration, ts_files,
                   ts_calls, ts_result>>
    /\ TsFrame

\* split_audio: ffmpeg cut chunk i, starting at i * max_duration  (71-89)
SplitCutChunk ==
    /\ ts_pc = "split"
    /\ ts_split_i < NumChunks(ts_audio.duration, SplitMaxDuration)
    /\ ts_files' = [path \in (DOMAIN ts_files) \cup {ChunkPath(ts_split_i)} |->
                       IF path = ChunkPath(ts_split_i) THEN ts_split_i * SplitMaxDuration
                       ELSE ts_files[path]]
    /\ ts_segment_paths' = Append(ts_segment_paths, ChunkPath(ts_split_i))
    /\ ts_split_i' = ts_split_i + 1
    /\ UNCHANGED <<ts_pc, ts_audio, ts_audio_segments, ts_i, ts_all_segments,
                   ts_detected_language, ts_full_text, ts_total_duration, ts_calls,
                   ts_result>>
    /\ TsFrame

\* split_audio: ffmpeg failed on chunk i (check=True); the exception leaves
\* split_audio and is re-raised by transcribe_audio  (88, 165-167)
SplitCutFails ==
    /\ ts_pc = "split"
    /\ ts_split_i < NumChunks(ts_audio.duration, SplitMaxDuration)
    /\ ts_pc' = "raised"
    /\ ts_result' = ExceptHandler("CalledProcessError", ts_full_text, ts_all_segments,
                                  LanguageOrUnknown(ts_detected_language),
                                  ts_total_duration)
    /\ UNCHANGED <<ts_audio, ts_split_i, ts_segment_paths, ts_audio_segments, ts_i,
                   ts_all_segments, ts_detected_language, ts_full_text,
                   ts_total_duration, ts_files, ts_calls>>
    /\ TsFrame

\* split_audio returns segment_paths  (91-92, 103-110)
SplitReturn ==
    /\ ts_pc = "split"
    /\ ts_split_i = NumChunks(ts_audio.duration, SplitMaxDuration)
    /\ TsEnterLoop(ts_segment_paths)
    /\ UNCHANGED <<ts_audio, ts_split_i, ts_segment_paths, ts_files, ts_calls, ts_result>>
    /\ TsFrame

\* The recognition call for chunk i returned: record language, text and
\* shifted segments, then delete the chunk file  (112-150)
TranscribeChunkReturns ==
    /\ ts_pc = "loop"
    /\ ts_i < Len(ts_audio_segments)
    /\ \E transcription \in ChunkResponses :
        LET segment_path == ts_audio_segments[ts_i + 1]
            new == IF transcription.has_segments
                   THEN ShiftedSegments(transcription.segments, ts_i)
                   ELSE <<>>
        IN  /\ ts_detected_language' =
                   DetectedLanguage(ts_detected_language, transcription.language)
            /\ ts_full_text' = Append(ts_full_text, ChunkText(ts_i))
            /\ ts_all_segments' = ts_all_segments \o new
            /\ ts_total_duration' = TrackDuration(ts_total_duration, new)
            /\ ts_files' = IF segment_path # AudioPath
                           THEN [path \in (DOMAIN ts_files) \ {segment_path} |-> ts_files[path]]
                           ELSE ts_files
            /\ ts_calls' = Append(ts_calls,
                                  [chunk |-> ts_i, cut |-> CutOf(segment_path),
                                   language |-> transcription.language,
                                   segments |-> IF transcription.has_segments
                                                THEN transcription.segments ELSE <<>>])
    /\ ts_i' = ts_i + 1
    /\ UNCHANGED <<ts_pc, ts_audio, ts_split_i, ts_segment_paths, ts_audio_segments,
                   ts_result>>
    /\ TsFrame

\* Opening chunk i or the recognition call raised: the except clause prints
\* and re-raises  (117-125, 165-167)
TranscribeChunkRaises ==
    /\ ts_pc = "loop"
    /\ ts_i < Len(ts_audio_segments)
    /\ ts_pc' = "raised"
    /\ ts_result' = ExceptHandler("APIError", ts_full_text, ts_all_segments,
                                  LanguageOrUnknown(ts_detected_language),
                                  ts_total_duration)
    /\ UNCHANGED <<ts_audio, ts_split_i, ts_segment_paths, ts_audio_segments, ts_i,
                   ts_all_segments, ts_detected_language, ts_full_text,
                   ts_total_duration, ts_files, ts_calls>>
    /\ TsFrame

\* All chunks done: build and return the TranscriptionResult  (152-163)
TsReturn ==
    /\ ts_pc = "loop"
    /\ ts_i = Len(ts_audio_segments)
    /\ ts_result' = TranscriptionResult(ts_full_text, ts_all_segments,
                                        LanguageOrUnknown(ts_detected_language),
                                        ts_total_duration)
    /\ ts_pc' = "done"
    /\ UNCHANGED <<ts_audio, ts_split_i, ts_segment_paths, ts_audio_segments, ts_i,
                   ts_all_segments, ts_detected_language, ts_full_text,
                   ts_total_duration, ts_files, ts_calls>>
    /\ TsFrame

\* ---------------------------------------------------- merge_audio_segments
\* str(x) of a float given in tenths: "4.0", "2.5"
FloatStr(tenths) == NatToStr(tenths \div 10) \o <<".">> \o NatToStr(tenths % 10)

\* int(seg["start"] * 1000): a start in tenths of a second, in milliseconds
DelayMs(start) == start * 100

\* One element of segments: the dict the caller built.  has_audio_path says
\* whether the key "audio_path" is present.
MergeSegment(idx, has_audio_path) ==
    [start |-> InputSegment(idx).start_time, end |-> InputSegment(idx).end_time,
     has_audio_path |-> has_audio_path, audio_path |-> SegmentPath(idx)]

\* Mutant: a segment counts as a clip whether or not its file exists
RECURSIVE AudioSegmentsIgnoringFiles(_, _)
AudioSegmentsIgnoringFiles(segs, files) ==
    IF segs = <<>> THEN <<>>
    ELSE (IF segs[1].has_audio_path THEN <<segs[1]>> ELSE <<>>)
         \o AudioSegmentsIgnoringFiles(Tail(segs), files)

\* [seg for seg in segments if "audio_path" in seg and seg["audio_path"].exists()]
RECURSIVE AudioSegments(_, _)
AudioSegments(segs, files) ==
    IF segs = <<>> THEN <<>>
    ELSE (IF segs[1].has_audio_path /\ segs[1].audio_path \in files
          THEN <<segs[1]>> ELSE <<>>)
         \o AudioSegments(Tail(segs), files)

\* Mutant: the end of the last supplied segment
TotalDurationOfLast(segs) == segs[Len(segs)].end

\* max(seg["end"] for seg in segments)
RECURSIVE TotalDuration(_)
TotalDuration(segs) ==
    IF Len(segs) = 1 THEN segs[1].end
    ELSE LET rest == TotalDuration(Tail(segs))
         IN  IF segs[1].end > rest THEN segs[1].end ELSE rest

\* Mutant: every clip is delayed by the start of the supplied segment at the
\* same position
FilterPartsBySuppliedPosition(audio_segments, segs) ==
    [k \in 1..Len(audio_segments) |->
        [input |-> k - 1, delay_ms |-> DelayMs(segs[k].start), label |-> k - 1]]

\* The adelay parts of the filter graph: [{i}:a]adelay={d}|{d}[a{i}]
FilterParts(audio_segments, segs) ==
    [k \in 1..Len(audio_segments) |->
        [input |-> k - 1, delay_ms |-> DelayMs(audio_segments[k].start), label |-> k - 1]]

NoCommand == [built |-> FALSE]

\* The ffmpeg command: the -i inputs in order, the adelay parts, the amix
\* part over the labels a0..a{n-1}, and -t
MergeCommand(audio_segments, segs) ==
    [built      |-> TRUE,
     inputs     |-> [k \in 1..Len(audio_segments) |-> audio_segments[k].audio_path],
     delays     |-> FilterParts(audio_segments, segs),
     mix_labels |-> [k \in 1..Len(audio_segments) |-> k - 1],
     mix_inputs |-> Len(audio_segments),
     t          |-> FloatStr(TotalDuration(segs))]

MgStart(segs, files) ==
    /\ mg_pc = "start"
    /\ mg_segments = segs
    /\ mg_fs = files
    /\ mg_cmd = NoCommand
    /\ mg_processes = <<>>
    /\ mg_runs = <<>>

\* if not audio_segments
HasNoClips(audio_segments) == audio_segments = <<>>

\* No supplied segment has a clip: raise ValueError  (27-33)
MergeNoClips ==
    /\ mg_pc = "start"
    /\ HasNoClips(AudioSegments(mg_segments, mg_fs))
    /\ mg_pc' = "raised"
    /\ mg_runs' = Append(mg_runs, "ValueError")
    /\ UNCHANGED <<mg_segments, mg_fs, mg_cmd, mg_processes>>
    /\ MgFrame

\* Build the command and hand it to subprocess.run  (27-70)
MergeBuildCommand ==
    /\ mg_pc = "start"
    /\ ~HasNoClips(AudioSegments(mg_segments, mg_fs))
    /\ mg_cmd' = MergeCommand(AudioSegments(mg_segments, mg_fs), mg_segments)
    /\ mg_processes' = Append(mg_processes, mg_cmd')
    /\ mg_pc' = "run"
    /\ UNCHANGED <<mg_segments, mg_fs, mg_runs>>
    /\ MgFrame

\* ffmpeg exited with 0: return output_path  (70-72)
MergeProcessSucceeds ==
    /\ mg_pc = "run"
    /\ mg_pc' = "returned"
    /\ mg_runs' = Append(mg_runs, "returned")
    /\ UNCHANGED <<mg_segments, mg_fs, mg_cmd, mg_processes>>
    /\ MgFrame

\* ffmpeg exited with an error: CalledProcessError is re-raised  (73-75)
MergeProcessFails ==
    /\ mg_pc = "run"
    /\ mg_pc' = "raised"
    /\ mg_runs' = Append(mg_runs, "CalledProcessError")
    /\ UNCHANGED <<mg_segments, mg_fs, mg_cmd, mg_processes>>
    /\ MgFrame

\* The caller runs merge_audio_segments again on the same segments and files
MergeAgain ==
    /\ mg_pc \in {"returned", "raised"}
    /\ Len(mg_runs) < MaxMergeRuns
    /\ mg_pc' = "start"
    /\ mg_cmd' = NoCommand
    /\ UNCHANGED <<mg_segments, mg_fs, mg_processes, mg_runs>>
    /\ MgFrame

\* ------------------------------------------------- generate_speech_segment
\* Times the speed of a style is given in: tenths
NoStyle == [given |-> FALSE]

StyleParams(style, intensity, speed) ==
    [given |-> TRUE, style |-> style, style_intensity |-> intensity, speed |-> speed]

\* style_descriptions.get(style, "neutral")
StyleDescription(style) ==
    CASE style = "cheerful"     -> "cheerful and happy"
      [] style = "sad"          -> "sad"
      [] style = "angry"        -> "angry"
      [] style = "worried"      -> "worried"
      [] style = "excited"      -> "excited"
      [] style = "dissatisfied" -> "dissatisfied"
      [] style = "confident"    -> "confident"
      [] OTHER                  -> "neutral"

\* intensity_modifiers.get(intensity, "")
IntensityModifier(intensity) ==
    CASE intensity = "weak"   -> "slightly"
      [] intensity = "strong" -> "very"
      [] OTHER                -> ""

\* speed_modifier: "slowly" below 0.8, "quickly" above 1.2
SpeedModifier(speed) ==
    IF speed < 8 THEN "slowly"
    ELSE IF speed > 12 THEN "quickly"
    ELSE ""

\* style_components
StyleComponents(p) ==
    << IF SpeedModifier(p.speed) # "" THEN <<"Read", " ", SpeedModifier(p.speed)>>
       ELSE <<"Read">>,
       <<"the following text in a">>,
       IF IntensityModifier(p.style_intensity) # ""
       THEN <<IntensityModifier(p.style_intensity), " ", StyleDescription(p.style)>>
       ELSE <<StyleDescription(p.style)>>,
       <<"tone:">> >>

\* style_prompt
StylePrompt(p) ==
    IF p.given THEN JoinBlank(StyleComponents(p)) \o <<"\n\n">> ELSE <<>>

\* full_text = style_prompt + text if style_prompt else text
FullText(p, text) ==
    IF StylePrompt(p) # <<>> THEN StylePrompt(p) \o text ELSE text

\* max_retries of generate_speech_segment
SegmentMaxRetries == 3

OutputPath == "segment_0000.wav"
NoPath == "None"
NoSegmentResult == [returned |-> FALSE]
SegmentReturn(path) == [returned |-> TRUE, path |-> path]

\* Mutant: one more call than max_retries
SegmentLoopOneMore(count) == count <= SegmentMaxRetries

\* while retry_count < max_retries
SegmentLoopContinues(count) == count < SegmentMaxRetries

\* Mutant: the exception of the last call leaves the function
OuterHandlerReraises(e) == [returned |-> FALSE, error |-> e]

\* except Exception as e: ... return None
OuterHandler(e) == SegmentReturn(NoPath)

GsStart(text, p) ==
    /\ gs_pc = "start"
    /\ gs_text = text
    /\ gs_style_params = p
    /\ gs_full_text = <<>>
    /\ gs_retry_count = 0
    /\ gs_calls = <<>>
    /\ gs_fs = {}
    /\ gs_result = NoSegmentResult

\* The prompt, contents and config are built and the loop is entered
\* (tts.py 97-177)
GsBuildPrompt ==
    /\ gs_pc = "start"
    /\ gs_full_text' = FullText(gs_style_params, gs_text)
    /\ gs_retry_count' = 0
    /\ gs_pc' = "loop"
    /\ UNCHANGED <<gs_text, gs_style_params, gs_calls, gs_fs, gs_result>>
    /\ GsFrame

\* A call whose stream carried audio data and a mime type: the clip is
\* converted, written and its path returned (tts.py 179-205)
GsCallYieldsAudio ==
    /\ gs_pc = "loop"
    /\ SegmentLoopContinues(gs_retry_count)
    /\ gs_calls' = Append(gs_calls, "audio")
    /\ gs_fs' = gs_fs \cup {OutputPath}
    /\ gs_result' = SegmentReturn(OutputPath)
    /\ gs_pc' = "returned"
    /\ UNCHANGED <<gs_text, gs_style_params, gs_full_text, gs_retry_count>>
    /\ GsFrame

\* A call whose stream carried no audio data (tts.py 179-212)
GsCallYieldsNothing ==
    /\ gs_pc = "loop"
    /\ SegmentLoopContinues(gs_retry_count)
    /\ gs_calls' = Append(gs_calls, "empty")
    /\ gs_retry_count' = gs_retry_count + 1
    /\ UNCHANGED <<gs_pc, gs_text, gs_style_params, gs_full_text, gs_fs, gs_result>>
    /\ GsFrame

\* A call that raised: retried while retries remain, re-raised to the
\* outer handler otherwise (tts.py 214-221)
GsCallRaises ==
    /\ gs_pc = "loop"
    /\ SegmentLoopContinues(gs_retry_count)
    /\ gs_calls' = Append(gs_calls, "raised")
    /\ gs_retry_count' = gs_retry_count + 1
    /\ gs_pc' = IF gs_retry_count + 1 < SegmentMaxRetries THEN "loop" ELSE "except"
    /\ UNCHANGED <<gs_text, gs_style_params, gs_full_text, gs_fs, gs_result>>
    /\ GsFrame

\* The loop ends with every retry used: return None (tts.py 179, 223)
GsLoopExhausted ==
    /\ gs_pc = "loop"
    /\ ~SegmentLoopContinues(gs_retry_count)
    /\ gs_result' = SegmentReturn(NoPath)
    /\ gs_pc' = "returned"
    /\ UNCHANGED <<gs_text, gs_style_params, gs_full_text, gs_retry_count, gs_calls,
                   gs_fs>>
    /\ GsFrame

\* The outer handler receives the re-raised exception (tts.py 225-227)
GsOuterExcept ==
    /\ gs_pc = "except"
    /\ gs_result' = OuterHandler("Exception")
    /\ gs_pc' = IF OuterHandler("Exception").returned THEN "returned" ELSE "raised"
    /\ UNCHANGED <<gs_text, gs_style_params, gs_full_text, gs_retry_count, gs_calls,
                   gs_fs>>
    /\ GsFrame

\* ------------------- TextToSpeechWithPrompts.generate_speech_for_segments
\* zip(segments, translated_texts): the indices that have both
ZipLen(segs, texts) == Min(Len(segs), Len(texts))

\* One (idx, segment, segment_audio_path, task, translated_text, prompt)
\* tuple; `prompt` records which prompt was built for the segment
PromptTask(segs, texts, idx, prompt) ==
    [idx |-> idx, segment |-> segs[idx + 1], audio_path |-> SegmentPath(idx),
     text |-> texts[idx + 1], prompt |-> prompt]

\* The prompts a segment can get: the analyzer's when the source audio exists
\* and the extraction succeeded, the default prompt otherwise
PromptsFor(has_audio) == IF has_audio THEN {"generated", "default"} ELSE {"default"}

WpStart(segs, texts, has_audio) ==
    /\ wp_pc = "tasks"
    /\ wp_segments = segs
    /\ wp_texts = texts
    /\ wp_has_audio = has_audio
    /\ wp_tasks = <<>>
    /\ wp_k = 0
    /\ wp_audio_files = <<>>
    /\ wp_segments_data = <<>>
    /\ wp_full_text_parts = <<>>
    /\ wp_total_duration = 0
    /\ wp_total_size = 0
    /\ wp_log = <<>>
    /\ wp_result = NoResult

\* The loop building one prompt and one task per zipped pair
\* (tts_with_prompts.py 196-247)
WpCreateTasks ==
    /\ wp_pc = "tasks"
    /\ \E prompts \in [1..ZipLen(wp_segments, wp_texts) -> PromptsFor(wp_has_audio)] :
          wp_tasks' = [k \in 1..ZipLen(wp_segments, wp_texts) |->
                          PromptTask(wp_segments, wp_texts, k - 1, prompts[k])]
    /\ wp_full_text_parts' = [k \in 1..ZipLen(wp_segments, wp_texts) |-> wp_texts[k]]
    /\ wp_k' = 0
    /\ wp_pc' = "pass"
    /\ UNCHANGED <<wp_segments, wp_texts, wp_has_audio, wp_audio_files, wp_segments_data,
                   wp_total_duration, wp_total_size, wp_log, wp_result>>
    /\ WpFrame

\* The awaited task returned a clip (tts_with_prompts.py 252-273); the
\* entry's audio_duration is left out of the model
WpAwaitGenerated ==
    /\ wp_pc = "pass"
    /\ wp_k < Len(wp_tasks)
    /\ LET t == wp_tasks[wp_k + 1]
       IN  /\ wp_audio_files' = Append(wp_audio_files, t.audio_path)
           /\ wp_total_size' = wp_total_size + ClipSize(t.idx)
           /\ wp_segments_data' = Append(wp_segments_data, SegmentEntry(t))
           /\ wp_total_duration' = Max(wp_total_duration, t.segment.end_time)
           /\ wp_log' = Append(wp_log, [idx |-> t.idx, ok |-> TRUE])
    /\ wp_k' = wp_k + 1
    /\ UNCHANGED <<wp_pc, wp_segments, wp_texts, wp_has_audio, wp_tasks,
                   wp_full_text_parts, wp_result>>
    /\ WpFrame

\* The awaited task returned (None, 0.0) or raised
\* (tts_with_prompts.py 252-253, 274-277)
WpAwaitFailed ==
    /\ wp_pc = "pass"
    /\ wp_k < Len(wp_tasks)
    /\ wp_log' = Append(wp_log, [idx |-> wp_tasks[wp_k + 1].idx, ok |-> FALSE])
    /\ wp_k' = wp_k + 1
    /\ UNCHANGED <<wp_pc, wp_segments, wp_texts, wp_has_audio, wp_tasks, wp_audio_files,
                   wp_segments_data, wp_full_text_parts, wp_total_duration,
                   wp_total_size, wp_result>>
    /\ WpFrame

\* After the only pass: return TTSResult(...) (tts_with_prompts.py 279-297)
WpReturn ==
    /\ wp_pc = "pass"
    /\ wp_k = Len(wp_tasks)
    /\ wp_result' = TTSResult(wp_audio_files, wp_total_duration, wp_full_text_parts,
                              wp_total_size, wp_segments_data)
    /\ wp_pc' = "done"
    /\ UNCHANGED <<wp_segments, wp_texts, wp_has_audio, wp_tasks, wp_k, wp_audio_files,
                   wp_segments_data, wp_full_text_parts, wp_total_duration,
                   wp_total_size, wp_log>>
    /\ WpFrame

WpStep ==
    \/ WpCreateTasks
    \/ WpAwaitGenerated
    \/ WpAwaitFailed
    \/ WpReturn

\* ------------------------ generate_speech_for_segments: style analysis
\* An analysis as the style-analysis call returns it (the fields that
\* convert_to_tts_style reads); speed values are in tenths
Analysis(primary, intensity, speed, strength, features) ==
    [emotion |-> [primary |-> primary, intensity |-> intensity],
     speed |-> [value |-> speed],
     tone |-> [strength |-> strength],
     special_features |-> features]

\* _get_default_style()
DefaultStyle == Analysis("neutral", "moderate", 10, "moderate", {})

\* emotion_to_style.get(primary_emotion, "neutral")
EmotionToStyle(primary) ==
    CASE primary = "happy"    -> "cheerful"
      [] primary = "sad"      -> "sad"
      [] primary = "angry"    -> "angry"
      [] primary = "fear"     -> "worried"
      [] primary = "surprise" -> "excited"
      [] primary = "disgust"  -> "dissatisfied"
      [] OTHER                -> "neutral"

\* convert_to_tts_style(analysis)
ConvertToTtsStyle(a) ==
    StyleParams(IF a.emotion.intensity # "strong" /\ "tremor" \in a.special_features
                THEN "worried"
                ELSE IF a.emotion.intensity # "strong" /\ a.tone.strength = "forceful"
                THEN "confident"
                ELSE EmotionToStyle(a.emotion.primary),
                a.emotion.intensity,
                a.speed.value)

\* What one style-analysis call does: a parsed JSON answer, an empty
\* answer, or an exception
JsonResponse(a) == [kind |-> "json", analysis |-> a]
EmptyResponse == [kind |-> "empty"]
RaisedResponse == [kind |-> "raised"]

\* The answers a style-analysis call can give
StyleResponses ==
    {JsonResponse(Analysis("happy", "strong", 13, "forceful", {})),
     JsonResponse(Analysis("sad", "weak", 7, "weak", {"tremor"})),
     EmptyResponse, RaisedResponse}

\* max_retries of analyze_audio_style
AnalyzeMaxRetries == 3

\* analyze_audio_style's loop from retry_count = count on: the first parsed answer,
\* or the default style once the retries are used up
RECURSIVE AnalyzeFrom(_, _)
AnalyzeFrom(outs, count) ==
    IF count >= AnalyzeMaxRetries THEN [failed |-> TRUE, analysis |-> DefaultStyle]
    ELSE IF outs[count + 1].kind = "json"
         THEN [failed |-> FALSE, analysis |-> outs[count + 1].analysis]
         ELSE AnalyzeFrom(outs, count + 1)

\* analyze_audio_style(...)
AnalyzeAudioStyle(outs) == AnalyzeFrom(outs, 0)

\* Mutant: a segment without an entry gets the entry of the segment before
CacheGetOrPrevious(cache, idx) ==
    IF idx \in DOMAIN cache THEN cache[idx]
    ELSE IF idx - 1 \in DOMAIN cache THEN cache[idx - 1]
    ELSE NoStyle

\* style_params_cache.get(idx)
CacheGet(cache, idx) == IF idx \in DOMAIN cache THEN cache[idx] ELSE NoStyle

\* One task tuple together with the style_params its coroutine was given
StyledTask(segs, texts, cache, idx) ==
    [idx |-> idx, segment |-> segs[idx + 1], audio_path |-> SegmentPath(idx),
     text |-> TextFor(segs, texts, idx), style_params |-> CacheGet(cache, idx)]

StStart(segs, texts, enabled) ==
    /\ st_pc = "start"
    /\ st_segments = segs
    /\ st_texts = texts
    /\ st_enabled = enabled
    /\ st_idx = 0
    /\ style_params_cache = [idx \in {} |-> NoStyle]
    /\ st_log = <<>>
    /\ st_tasks = <<>>

\* if analyze_style and audio_path and audio_path.exists() (tts.py 257-258)
StyleBegin ==
    /\ st_pc = "start"
    /\ st_pc' = IF st_enabled THEN "analyze" ELSE "tasks"
    /\ st_idx' = 0
    /\ style_params_cache' = [idx \in {} |-> NoStyle]
    /\ UNCHANGED <<st_segments, st_texts, st_enabled, st_log, st_tasks>>
    /\ StFrame

\* An iteration whose extraction did not produce the slice: nothing is
\* cached (tts.py 280-281)
StyleExtractFails ==
    /\ st_pc = "analyze"
    /\ st_idx < Len(st_segments)
    /\ st_log' = Append(st_log, [kind |-> "extract_failed"])
    /\ st_idx' = st_idx + 1
    /\ UNCHANGED <<st_pc, st_segments, st_texts, st_enabled, style_params_cache, st_tasks>>
    /\ StFrame

\* An iteration that raised before anything was cached: the except clause
\* prints and the loop goes on (tts.py 263-290, 298-299)
StyleIterationRaises ==
    /\ st_pc = "analyze"
    /\ st_idx < Len(st_segments)
    /\ st_log' = Append(st_log, [kind |-> "raised"])
    /\ st_idx' = st_idx + 1
    /\ UNCHANGED <<st_pc, st_segments, st_texts, st_enabled, style_params_cache, st_tasks>>
    /\ StFrame

\* An iteration whose slice was extracted: analyze_audio_style returns the
\* analysis, or the default style when its calls failed, and the converted
\* parameters are cached (tts.py 283-296)
StyleAnalyzed ==
    /\ st_pc = "analyze"
    /\ st_idx < Len(st_segments)
    /\ \E outs \in [1..AnalyzeMaxRetries -> StyleResponses] :
          LET r == AnalyzeAudioStyle(outs)
          IN  /\ style_params_cache' =
                     [idx \in (DOMAIN style_params_cache) \cup {st_idx} |->
                         IF idx = st_idx THEN ConvertToTtsStyle(r.analysis)
                         ELSE style_params_cache[idx]]
              /\ st_log' = Append(st_log,
                     [kind |-> IF r.failed THEN "call_failed" ELSE "analyzed",
                      analysis |-> r.analysis])
    /\ st_idx' = st_idx + 1
    /\ UNCHANGED <<st_pc, st_segments, st_texts, st_enabled, st_tasks>>
    /\ StFrame

\* The analysis loop ends (tts.py 262, 301-307)
StyleLoopEnd ==
    /\ st_pc = "analyze"
    /\ st_idx >= Len(st_segments)
    /\ st_pc' = "tasks"
    /\ UNCHANGED <<st_segments, st_texts, st_enabled, st_idx, style_params_cache,
                   st_log, st_tasks>>
    /\ StFrame

\* The loop creating one generation task per segment, each with the style
\* parameters cached for its index (tts.py 309-326)
StyleCreateTasks ==
    /\ st_pc = "tasks"
    /\ st_tasks' = [k \in 1..Len(st_segments) |->
                       StyledTask(st_segments, st_texts, style_params_cache, k - 1)]
    /\ st_pc' = "done"
    /\ UNCHANGED <<st_segments, st_texts, st_enabled, st_idx, style_params_cache, st_log>>
    /\ StFrame

\* ---------------------------------------------------------- SessionManager
Threads == 1..MaxThreads

NoId == <<>>

\* create_session(): f"session_{timestamp}_{unique_id}", unique per call
CreateSession(t) == <<"session_">> \o NatToStr(t)

\* The session ids a caller may supply
SuppliedIds == {<<"session_", "x">>, <<"job">>}

\* session_dir.name.startswith("session_")
StartsWithSession(name) == name[1] = "session_"

NotExited == [exited |-> FALSE]

SmStart ==
    /\ sm_pc = [t \in Threads |-> "idle"]
    /\ sm_id = [t \in Threads |-> NoId]
    /\ sm_cleanup = [t \in Threads |-> TRUE]
    /\ sm_active = [id \in {} |-> 0]
    /\ sm_dirs = {}
    /\ sm_outcome = [t \in Threads |-> "none"]
    /\ sm_at_exit = [t \in Threads |-> NotExited]

\* session_context is called: the session id is the caller's or a new one
\* (session_manager.py 111, 129-132)
SessionEnter ==
    \E t \in Threads, cleanup \in BOOLEAN, id \in SuppliedIds \cup {NoId} :
        /\ sm_pc[t] = "idle"
        /\ sm_id' = [sm_id EXCEPT ![t] = IF id = NoId THEN CreateSession(t) ELSE id]
        /\ sm_cleanup' = [sm_cleanup EXCEPT ![t] = cleanup]
        /\ sm_pc' = [sm_pc EXCEPT ![t] = "enter"]
        /\ UNCHANGED <<sm_active, sm_dirs, sm_outcome, sm_at_exit>>
        /\ SmFrame

\* Under the lock: mkdir(exist_ok=True) and registration; then the body
\* runs (session_manager.py 136-142)
SessionRegister ==
    \E t \in Threads :
        /\ sm_pc[t] = "enter"
        /\ sm_dirs' = sm_dirs \cup {sm_id[t]}
        /\ sm_active' = [id \in (DOMAIN sm_active) \cup {sm_id[t]} |->
                            IF id = sm_id[t] THEN t ELSE sm_active[id]]
        /\ sm_pc' = [sm_pc EXCEPT ![t] = "body"]
        /\ UNCHANGED <<sm_id, sm_cleanup, sm_outcome, sm_at_exit>>
        /\ SmFrame

\* The body of the with block ends normally (session_manager.py 142, 148)
SessionBodyReturns ==
    \E t \in Threads :
        /\ sm_pc[t] = "body"
        /\ sm_outcome' = [sm_outcome EXCEPT ![t] = "returned"]
        /\ sm_pc' = [sm_pc EXCEPT ![t] = "finally"]
        /\ UNCHANGED <<sm_id, sm_cleanup, sm_active, sm_dirs, sm_at_exit>>
        /\ SmFrame

\* The body raises: SessionError is raised in its place
\* (session_manager.py 144-148)
SessionBodyRaises ==
    \E t \in Threads :
        /\ sm_pc[t] = "body"
        /\ sm_outcome' = [sm_outcome EXCEPT ![t] = "SessionError"]
        /\ sm_pc' = [sm_pc EXCEPT ![t] = "finally"]
        /\ UNCHANGED <<sm_id, sm_cleanup, sm_active, sm_dirs, sm_at_exit>>
        /\ SmFrame

\* Mutant: the entry is left in _active_sessions
PopNothing(active, id) == active

\* _active_sessions.pop(session_id, None)
Pop(active, id) == [k \in (DOMAIN active) \ {id} |-> active[k]]

\* shutil.rmtree(session_dir) where the directory exists
Rmtree(dirs, d) == dirs \ {d}

\* finally, under the lock: _active_sessions.pop(session_id, None)
\* (session_manager.py 148-151)
SessionPop ==
    \E t \in Threads :
        /\ sm_pc[t] = "finally"
        /\ sm_active' = Pop(sm_active, sm_id[t])
        /\ sm_pc' = [sm_pc EXCEPT ![t] = "cleanup"]
        /\ UNCHANGED <<sm_id, sm_cleanup, sm_dirs, sm_outcome, sm_at_exit>>
        /\ SmFrame

\* finally, outside the lock: if cleanup and session_dir.exists():
\* shutil.rmtree(session_dir); the context manager is left
\* (session_manager.py 153-158)
SessionCleanup ==
    \E t \in Threads :
        /\ sm_pc[t] = "cleanup"
        /\ sm_dirs' = IF sm_cleanup[t] /\ sm_id[t] \in sm_dirs
                      THEN Rmtree(sm_dirs, sm_id[t])
                      ELSE sm_dirs
        /\ sm_at_exit' = [sm_at_exit EXCEPT ![t] =
               [exited     |-> TRUE,
                active     |-> \E id \in DOMAIN sm_active : sm_active[id] = t,
                id_active  |-> sm_id[t] \in DOMAIN sm_active,
                dir_exists |-> sm_id[t] \in sm_dirs']]
        /\ sm_pc' = [sm_pc EXCEPT ![t] = "exited"]
        /\ UNCHANGED <<sm_id, sm_cleanup, sm_active, sm_outcome>>
        /\ SmFrame

\* get_active_sessions(): the ids of a copy taken under the lock
\* (session_manager.py 160-167)
GetActiveSessions == DOMAIN sm_active

\* What cleanup_old_sessions leaves of the directories `dirs` when `old`
\* are those whose st_mtime is before the cutoff
CleanupOld(dirs, old) == dirs \ {d \in old : StartsWithSession(d)}

\* cleanup_old_sessions(hours), under the lock, called by any thread
\* (session_manager.py 169-191)
CleanupOldSessions ==
    /\ \E old \in SUBSET sm_dirs :
          /\ old # {}
          /\ sm_dirs' = CleanupOld(sm_dirs, old)
    /\ UNCHANGED <<sm_pc, sm_id, sm_cleanup, sm_active, sm_outcome, sm_at_exit>>
    /\ SmFrame

\* ----------------------------------------------------------- specifications
TrStart(segs) ==
    /\ segments = segs
    /\ translated_segments = <<>>
    /\ tr_i = 0
    /\ tr_pc = "loop"
    /\ tr_calls = <<>>
    /\ tr_response = <<>>

TrIdle ==
    /\ segments = <<>>
    /\ translated_segments = <<>>
    /\ tr_i = 0
    /\ tr_pc = "idle"
    /\ tr_calls = <<>>
    /\ tr_response = <<>>

TtsIdle ==
    /\ tts_segments = <<>>
    /\ translated_texts = <<>>
    /\ tts_pc = "idle"
    /\ tasks = <<>>
    /\ tts_k = 0
    /\ audio_files = <<>>
    /\ segments_data = <<>>
    /\ full_text_parts = <<>>
    /\ total_duration = 0
    /\ total_size = 0
    /\ missing_indices = <<>>
    /\ retry_count = 0
    /\ newly_generated = <<>>
    /\ fs = [path \in {} |-> 0]
    /\ gen_log = <<>>
    /\ running = {}
    /\ tts_result = NoResult

TmIdle ==
    /\ tm_pc = "idle"
    /\ tm_window = 0
    /\ tm_max_attempts = 0
    /\ tm_attempt = 0
    /\ tm_speed = Frac(1, 1)
    /\ tm_clip = NoClip
    /\ tm_calls = <<>>
    /\ tm_result = NoTiming

CliIdle ==
    /\ cli_pc = "idle"
    /\ cli_use_tts = FALSE
    /\ cli_translation_only = FALSE
    /\ cli_audio_file = FALSE
    /\ cli_stages = <<>>

\* translate_segments on every input length up to MaxSegments
GsIdle ==
    /\ gs_pc = "idle"
    /\ gs_text = <<>>
    /\ gs_style_params = NoStyle
    /\ gs_full_text = <<>>
    /\ gs_retry_count = 0
    /\ gs_calls = <<>>
    /\ gs_fs = {}
    /\ gs_result = NoSegmentResult

WpIdle ==
    /\ wp_pc = "idle"
    /\ wp_segments = <<>>
    /\ wp_texts = <<>>
    /\ wp_has_audio = FALSE
    /\ wp_tasks = <<>>
    /\ wp_k = 0
    /\ wp_audio_files = <<>>
    /\ wp_segments_data = <<>>
    /\ wp_full_text_parts = <<>>
    /\ wp_total_duration = 0
    /\ wp_total_size = 0
    /\ wp_log = <<>>
    /\ wp_result = NoResult

StIdle ==
    /\ st_pc = "idle"
    /\ st_segments = <<>>
    /\ st_texts = <<>>
    /\ st_enabled = FALSE
    /\ st_idx = 0
    /\ style_params_cache = [idx \in {} |-> NoStyle]
    /\ st_log = <<>>
    /\ st_tasks = <<>>

\* ------------------------------------------------------------ generate_async
\* The calls of generate_async made on one instance, one coroutine each.  A
\* coroutine runs without interruption from one await that suspends to the
\* next; the only await that suspends is asyncio.sleep(1) between two
\* attempts of generate_speech_segment.
Calls == 1..MaxCalls

\* request.voice is None
NoVoice == "none"

\* config.tts_voice, the voice_name of a new instance
ConfigVoice == "Aoede"

RequestVoices == {NoVoice, "Puck", "Kore"}

\* What one generate_content_stream call can give
AttemptOutcomes == {"audio", "empty", "raised"}

\* original_voice = self.voice_name; if request.voice: self.voice_name = request.voice
VoiceAfterOverride(current, request_voice) ==
    IF request_voice # NoVoice THEN request_voice ELSE current

\* finally: self.voice_name = original_voice
VoiceAfterRestore(current, original_voice) == original_voice

\* One attempt of generate_speech_segment by call c, started with the
\* instance voice v and the local original_voice orig.  Audio returns the
\* path and generate_async returns its TTSResult; an empty stream or an
\* exception with retries left suspends the call in asyncio.sleep(1); on the
\* last retry generate_speech_segment returns None and generate_async raises.
\* Both ways out pass through the finally clause.
GaAttempt(c, v, orig, outcome) ==
    /\ ga_used' = Append(ga_used, [call |-> c, voice |-> v])
    /\ IF outcome = "audio"
       THEN /\ ga_pc' = [ga_pc EXCEPT ![c] = "done"]
            /\ ga_outcome' = [ga_outcome EXCEPT ![c] = "result"]
            /\ voice_name' = VoiceAfterRestore(v, orig)
            /\ ga_retry_count' = ga_retry_count
            /\ ga_sleepers' = SelectSeq(ga_sleepers, LAMBDA x : x # c)
       ELSE IF SegmentLoopContinues(ga_retry_count[c] + 1)
       THEN /\ ga_pc' = [ga_pc EXCEPT ![c] = "sleeping"]
            /\ ga_retry_count' = [ga_retry_count EXCEPT ![c] = @ + 1]
            /\ voice_name' = v
            /\ ga_sleepers' = Append(SelectSeq(ga_sleepers, LAMBDA x : x # c), c)
            /\ ga_outcome' = ga_outcome
       ELSE /\ ga_pc' = [ga_pc EXCEPT ![c] = "done"]
            /\ ga_retry_count' = [ga_retry_count EXCEPT ![c] = @ + 1]
            /\ ga_outcome' = [ga_outcome EXCEPT ![c] = "raised"]
            /\ voice_name' = VoiceAfterRestore(v, orig)
            /\ ga_sleepers' = SelectSeq(ga_sleepers, LAMBDA x : x # c)

GaStart(request_voices) ==
    /\ ga_pc = [c \in Calls |-> "new"]
    /\ ga_request_voice = request_voices
    /\ ga_original_voice = [c \in Calls |-> NoVoice]
    /\ ga_retry_count = [c \in Calls |-> 0]
    /\ voice_name = ConfigVoice
    /\ ga_sleepers = <<>>
    /\ ga_used = <<>>
    /\ ga_outcome = [c \in Calls |-> "none"]

\* A call begins: it saves and overrides the voice and makes its first
\* attempt  (tts.py 484-496)
GaCallBegins ==
    \E c \in Calls, outcome \in AttemptOutcomes :
        /\ ga_pc[c] = "new"
        /\ ga_original_voice' = [ga_original_voice EXCEPT ![c] = voice_name]
        /\ GaAttempt(c, VoiceAfterOverride(voice_name, ga_request_voice[c]), voice_name,
                     outcome)
        /\ UNCHANGED ga_request_voice
        /\ GaFrame

\* The call that has slept longest wakes up and makes its next attempt
\* (tts.py 180-218)
GaCallResumes ==
    \E outcome \in AttemptOutcomes :
        /\ ga_sleepers # <<>>
        /\ LET c == Head(ga_sleepers)
           IN  /\ ga_pc[c] = "sleeping"
               /\ GaAttempt(c, voice_name, ga_original_voice[c], outcome)
        /\ UNCHANGED <<ga_request_voice, ga_original_voice>>
        /\ GaFrame

GaIdle ==
    /\ ga_pc = <<>>
    /\ ga_request_voice = <<>>
    /\ ga_original_voice = <<>>
    /\ ga_retry_count = <<>>
    /\ voice_name = ConfigVoice
    /\ ga_sleepers = <<>>
    /\ ga_used = <<>>
    /\ ga_outcome = <<>>

SmIdle ==
    /\ sm_pc = <<>>
    /\ sm_id = <<>>
    /\ sm_cleanup = <<>>
    /\ sm_active = [id \in {} |-> 0]
    /\ sm_dirs = {}
    /\ sm_outcome = <<>>
    /\ sm_at_exit = <<>>

MgIdle ==
    /\ mg_pc = "idle"
    /\ mg_segments = <<>>
    /\ mg_fs = {}
    /\ mg_cmd = NoCommand
    /\ mg_processes = <<>>
    /\ mg_runs = <<>>

TsIdle ==
    /\ ts_pc = "idle"
    /\ ts_audio = [size_mb |-> 0, duration |-> 0]
    /\ ts_split_i = 0
    /\ ts_segment_paths = <<>>
    /\ ts_audio_segments = <<>>
    /\ ts_i = 0
    /\ ts_all_segments = <<>>
    /\ ts_detected_language = NoLanguage
    /\ ts_full_text = <<>>
    /\ ts_total_duration = 0
    /\ ts_files = [path \in {} |-> 0]
    /\ ts_calls = <<>>
    /\ ts_result = NoTranscription

TrInit ==
    /\ \E n \in 0..MaxSegments : TrStart(InputSegments(n))
    /\ TtsIdle /\ TmIdle /\ CliIdle /\ TsIdle /\ MgIdle /\ GsIdle /\ WpIdle /\ StIdle /\ SmIdle
    /\ GaIdle

TrNext == TranslateBatchReturns \/ TranslateBatchRaises \/ TranslateReturn

SpecTranslate == TrInit /\ [][TrNext]_vars

\* generate_speech_for_segments on every pair of list lengths up to
\* MaxTtsSegments
TtsInit ==
    /\ \E n \in 0..MaxTtsSegments, m \in 0..MaxTtsSegments :
          TtsStart(InputSegments(n), TranslatedTexts(m))
    /\ TrIdle /\ TmIdle /\ CliIdle /\ TsIdle /\ MgIdle /\ GsIdle /\ WpIdle /\ StIdle /\ SmIdle
    /\ GaIdle

TtsNext == TtsStep

SpecTTS == TtsInit /\ [][TtsNext]_vars

\* The steps that wait for a generation task or turn a loop
TtsLoopSteps ==
    \/ CreateTasks
    \/ AwaitBegins
    \/ AwaitFirstGenerated
    \/ AwaitFirstNone
    \/ AwaitFirstRaised
    \/ RetryPassStart
    \/ RetryLoopExit
    \/ AwaitRetryGenerated
    \/ AwaitRetryNone
    \/ AwaitRetryRaised
    \/ RetryPassEnd
    \/ TtsReturn

\* The first pass is over and the count check has not run yet
CountCheckPending == tts_pc = "first" /\ tts_k = Len(tasks)

\* Every awaited generation task completes (generate_speech_segment is
\* bounded), so the coroutine keeps being resumed while it has a step; the
\* count check, which is straight-line code, does not stay pending.
SpecTTSFair ==
    TtsInit /\ [][TtsNext]_vars /\ WF_vars(TtsLoopSteps) /\ []<>(~CountCheckPending)

\* ------------------------------------------------ VideoTranslatorCLI.run
\* Stages whose call into a collaborator can raise
RaisingStages == {"setup", "download", "extract", "transcribe", "subtitle", "tts", "merge"}

CliStart(use_tts, translation_only) ==
    /\ cli_pc = "setup"
    /\ cli_use_tts = use_tts
    /\ cli_translation_only = translation_only
    /\ cli_audio_file = FALSE
    /\ cli_stages = <<>>

\* Mutant: after the audio extraction the download is run again
CliAdvanceRepeating(stage, next) ==
    /\ cli_pc = stage
    /\ cli_pc' = IF stage = "extract" THEN "download" ELSE next
    /\ cli_stages' = Append(cli_stages, stage)
    /\ UNCHANGED <<cli_use_tts, cli_translation_only, cli_audio_file>>

\* A stage that only hands over to the next one when it succeeds
CliAdvance(stage, next) ==
    /\ cli_pc = stage
    /\ cli_pc' = next
    /\ cli_stages' = Append(cli_stages, stage)
    /\ UNCHANGED <<cli_use_tts, cli_translation_only, cli_audio_file>>

\* Clear the temp directory, validate the configuration  (cli.py 45-53)
CliSetup == CliAdvance("setup", "download") /\ UNCHANGED <<tr_vars, tts_vars>> /\ CliFrame

\* 1. downloader.download_video  (cli.py 62-66)
CliDownload ==
    CliAdvance("download", "extract") /\ UNCHANGED <<tr_vars, tts_vars>> /\ CliFrame

\* 2. transcriber.extract_audio  (cli.py 68-71)
CliExtractAudio ==
    CliAdvance("extract", "transcribe") /\ UNCHANGED <<tr_vars, tts_vars>> /\ CliFrame

\* 3. transcriber.transcribe_audio returns a transcription, and
\* 4. translate_segments is entered with its segments  (cli.py 73-82)
CliTranscribe ==
    /\ CliAdvance("transcribe", "translate")
    /\ \E n \in 0..MaxCliSegments :
        /\ segments' = InputSegments(n)
        /\ translated_segments' = <<>>
        /\ tr_i' = 0
        /\ tr_pc' = "loop"
        /\ tr_calls' = <<>>
        /\ tr_response' = <<>>
    /\ UNCHANGED tts_vars
    /\ CliFrame

\* [seg.text for seg in translated_segments]
TextsOf(segs) == [k \in 1..Len(segs) |-> segs[k].text]

\* translate_segments has returned: 5. generate_srt  (cli.py 83-88)
CliSubtitle ==
    /\ cli_pc = "translate"
    /\ tr_pc = "done"
    /\ cli_pc' = "subtitle"
    /\ cli_stages' = Append(cli_stages, "translate")
    /\ UNCHANGED <<cli_use_tts, cli_translation_only, cli_audio_file>>
    /\ UNCHANGED <<tr_vars, tts_vars>>
    /\ CliFrame

\* Mutant: the target language is not looked at
EffectiveUseTtsAnyLanguage(use_tts, translation_only) == use_tts

\* use_tts after the check of TRANSLATION_ONLY_LANGUAGES  (cli.py 93-98)
EffectiveUseTts(use_tts, translation_only) == use_tts /\ ~translation_only

\* 6. speech synthesis is skipped  (cli.py 93-98, 126-127)
CliSkipTts ==
    /\ cli_pc = "subtitle"
    /\ ~EffectiveUseTts(cli_use_tts, cli_translation_only)
    /\ cli_pc' = "compose"
    /\ cli_stages' = Append(cli_stages, "subtitle")
    /\ UNCHANGED <<cli_use_tts, cli_translation_only, cli_audio_file>>
    /\ UNCHANGED <<tr_vars, tts_vars>>
    /\ CliFrame

\* 6. tts.generate_speech is entered with the transcription's segments and
\* the translated texts  (cli.py 98-111)
CliCallTts ==
    /\ cli_pc = "subtitle"
    /\ EffectiveUseTts(cli_use_tts, cli_translation_only)
    /\ cli_pc' = "tts"
    /\ cli_stages' = Append(cli_stages, "subtitle")
    /\ tts_segments' = segments
    /\ translated_texts' = TextsOf(translated_segments)
    /\ tts_pc' = "tasks"
    /\ UNCHANGED <<tasks, tts_k, audio_files, segments_data, full_text_parts,
                   total_duration, total_size, missing_indices, retry_count,
                   newly_generated, fs, gen_log, running, tts_result>>
    /\ UNCHANGED <<cli_use_tts, cli_translation_only, cli_audio_file>>
    /\ UNCHANGED tr_vars
    /\ CliFrame

\* if tts_result.segments and any("audio_path" in seg ...)  (cli.py 112)
HasAudioSegments(result) == result.segments # <<>>

\* generate_speech has returned: go on to the assembly of the clips, or
\* past it when the result has no segment  (cli.py 112-113)
CliAfterTts ==
    /\ cli_pc = "tts"
    /\ tts_pc = "done"
    /\ cli_pc' = IF HasAudioSegments(tts_result) THEN "merge" ELSE "compose"
    /\ cli_stages' = Append(cli_stages, "tts")
    /\ UNCHANGED <<cli_use_tts, cli_translation_only, cli_audio_file>>
    /\ UNCHANGED <<tr_vars, tts_vars>>
    /\ CliFrame

\* composer.merge_audio_segments returned the merged audio  (cli.py 113-125)
CliMerge ==
    /\ cli_pc = "merge"
    /\ \E k \in 1..Len(tts_result.segments) :
          tts_result.segments[k].audio_path \in DOMAIN fs
    /\ cli_pc' = "compose"
    /\ cli_audio_file' = TRUE
    /\ cli_stages' = Append(cli_stages, "merge")
    /\ UNCHANGED <<cli_use_tts, cli_translation_only>>
    /\ UNCHANGED <<tr_vars, tts_vars>>
    /\ CliFrame

\* The audio stream compose_video builds: the original audio mixed with the
\* translated audio when audio_file is given, the original audio alone
\* otherwise (video_composer.py 97-114)
AudioStream(audio_file) == IF audio_file THEN "mix" ELSE "original"

\* The keyword parameters of VideoComposer.compose_video
ComposeVideoParameters == {"original_video", "subtitle_file", "audio_file", "output_path"}

\* The keywords of the call of compose_video in run
ComposeCallKeywords == {"original_volume", "japanese_volume"}

\* Whether Python binds the call's arguments (it raises TypeError otherwise)
CallBinds(keywords, parameters) == keywords \subseteq parameters

\* 7. the call of composer.compose_video; its arguments do not bind, so it
\* raises before composing  (cli.py 129-165, video_composer.py 77-83)
CliCompose ==
    /\ cli_pc = "compose"
    /\ cli_pc' = IF CallBinds(ComposeCallKeywords, ComposeVideoParameters)
                 THEN "returned" ELSE "raised"
    /\ cli_stages' = Append(cli_stages, "compose")
    /\ UNCHANGED <<cli_use_tts, cli_translation_only, cli_audio_file>>
    /\ UNCHANGED <<tr_vars, tts_vars>>
    /\ CliFrame

\* The collaborator called by the current stage raises: the handler logs
\* and re-raises  (cli.py 167-170)
CliStageRaises ==
    /\ cli_pc \in RaisingStages
    /\ cli_pc' = "raised"
    /\ cli_stages' = Append(cli_stages, cli_pc)
    /\ UNCHANGED <<cli_use_tts, cli_translation_only, cli_audio_file>>
    /\ UNCHANGED <<tr_vars, tts_vars>>
    /\ CliFrame

\* Steps of the callees while run is inside them
CliTranslating == cli_pc = "translate" /\ TrNext
CliSynthesizing == cli_pc = "tts" /\ TtsStep

\* A pipeline run for every setting of use_tts and of the target language
CliInit ==
    /\ \E use_tts \in BOOLEAN, translation_only \in BOOLEAN :
          CliStart(use_tts, translation_only)
    /\ TrIdle /\ TtsIdle /\ TmIdle /\ TsIdle /\ MgIdle /\ GsIdle /\ WpIdle /\ StIdle /\ SmIdle
    /\ GaIdle

CliNext ==
    \/ CliSetup
    \/ CliDownload
    \/ CliExtractAudio
    \/ CliTranscribe
    \/ CliTranslating
    \/ CliSubtitle
    \/ CliSkipTts
    \/ CliCallTts
    \/ CliSynthesizing
    \/ CliAfterTts
    \/ CliMerge
    \/ CliCompose
    \/ CliStageRaises

SpecCLI == CliInit /\ [][CliNext]_vars

\* run is ordinary sequential code: while a step is possible, one is taken
SpecCLIFair == CliInit /\ [][CliNext]_vars /\ WF_vars(CliNext)

\* generate_speech_with_timing on every window and attempt budget
TmInit ==
    /\ \E window \in Windows, max_attempts \in 0..MaxAttemptsArg :
          TmStart(window, max_attempts)
    /\ TrIdle /\ TtsIdle /\ CliIdle /\ TsIdle /\ MgIdle /\ GsIdle /\ WpIdle /\ StIdle /\ SmIdle
    /\ GaIdle

TmNext == TmStep

SpecTiming == TmInit /\ [][TmNext]_vars

\* The event loop resumes the coroutine whenever its awaited call has
\* completed: a step that is possible is eventually taken.
SpecTimingFair == TmInit /\ [][TmNext]_vars /\ WF_vars(TmNext)

\* The transcript segments the supplied clips belong to
MergePool == {0, 1, 2}

\* Every list of at most MaxMergeSegments segments of the pool, in any
\* order, each with or without the audio_path key, and any set of existing
\* clip files
MgInit ==
    /\ \E n \in 0..MaxMergeSegments :
          \E idxs \in [1..n -> MergePool], keys \in [1..n -> BOOLEAN],
             files \in SUBSET {SegmentPath(idx) : idx \in MergePool} :
              MgStart([k \in 1..n |-> MergeSegment(idxs[k], keys[k])], files)
    /\ TrIdle /\ TtsIdle /\ TmIdle /\ CliIdle /\ TsIdle /\ GsIdle /\ WpIdle /\ StIdle /\ SmIdle
    /\ GaIdle

MgNext ==
    \/ MergeNoClips
    \/ MergeBuildCommand
    \/ MergeProcessSucceeds
    \/ MergeProcessFails
    \/ MergeAgain

SpecMerge == MgInit /\ [][MgNext]_vars

TsInit ==
    /\ \E audio \in AudioFiles : TsStart(audio)
    /\ TrIdle /\ TtsIdle /\ TmIdle /\ CliIdle /\ MgIdle /\ GsIdle /\ WpIdle /\ StIdle /\ SmIdle
    /\ GaIdle

TsNext ==
    \/ TsSmallFile
    \/ TsLargeFile
    \/ SplitNotNeeded
    \/ SplitBegin
    \/ SplitCutChunk
    \/ SplitCutFails
    \/ SplitReturn
    \/ TranscribeChunkReturns
    \/ TranscribeChunkRaises
    \/ TsReturn

SpecTranscribe == TsInit /\ [][TsNext]_vars

\* generate_speech_segment on a text, without style parameters and with
\* each combination of style, intensity and speed
SegmentStyles == {"cheerful", "angry", "neutral", "unknown"}
SegmentIntensities == {"weak", "moderate", "strong"}
SegmentSpeeds == {7, 8, 10, 12, 13}

GsInit ==
    /\ \E p \in {NoStyle} \cup {StyleParams(st, i, sp) :
                     st \in SegmentStyles, i \in SegmentIntensities, sp \in SegmentSpeeds} :
          GsStart(<<"hello">>, p)
    /\ TrIdle /\ TtsIdle /\ TmIdle /\ CliIdle /\ TsIdle /\ MgIdle /\ WpIdle /\ StIdle /\ SmIdle
    /\ GaIdle

GsNext ==
    \/ GsBuildPrompt
    \/ GsCallYieldsAudio
    \/ GsCallYieldsNothing
    \/ GsCallRaises
    \/ GsLoopExhausted
    \/ GsOuterExcept

SpecSegment == GsInit /\ [][GsNext]_vars

\* The base synthesizer and the timing-aware one on the same segments and
\* translated texts, each taking its own steps
BothInit ==
    /\ \E n \in 0..MaxBothSegments, m \in 0..MaxBothSegments, a \in BOOLEAN :
          /\ TtsStart(InputSegments(n), TranslatedTexts(m))
          /\ WpStart(InputSegments(n), TranslatedTexts(m), a)
    /\ TrIdle /\ TmIdle /\ CliIdle /\ TsIdle /\ MgIdle /\ GsIdle /\ StIdle /\ SmIdle
    /\ GaIdle

BothNext == TtsStep \/ WpStep

SpecBoth == BothInit /\ [][BothNext]_vars

\* The style analysis and the task creation of generate_speech_for_segments
\* on up to MaxStyleSegments segments
StInit ==
    /\ \E n \in 0..MaxStyleSegments, m \in {0, 1}, enabled \in BOOLEAN :
          StStart(InputSegments(n), TranslatedTexts(m), enabled)
    /\ TrIdle /\ TtsIdle /\ TmIdle /\ CliIdle /\ TsIdle /\ MgIdle /\ GsIdle /\ WpIdle /\ SmIdle
    /\ GaIdle

StNext ==
    \/ StyleBegin
    \/ StyleExtractFails
    \/ StyleIterationRaises
    \/ StyleAnalyzed
    \/ StyleLoopEnd
    \/ StyleCreateTasks

SpecStyle == StInit /\ [][StNext]_vars

\* One SessionManager used by MaxThreads threads, each opening one
\* session_context, and cleanup_old_sessions running at any time
SmInit ==
    /\ SmStart
    /\ TrIdle /\ TtsIdle /\ TmIdle /\ CliIdle /\ TsIdle /\ MgIdle /\ GsIdle /\ WpIdle
    /\ StIdle /\ GaIdle

SmNext ==
    \/ SessionEnter
    \/ SessionRegister
    \/ SessionBodyReturns
    \/ SessionBodyRaises
    \/ SessionPop
    \/ SessionCleanup
    \/ CleanupOldSessions

SpecSession == SmInit /\ [][SmNext]_vars

GaInit ==
    /\ \E request_voices \in [Calls -> RequestVoices] : GaStart(request_voices)
    /\ TrIdle /\ TtsIdle /\ TmIdle /\ CliIdle /\ TsIdle /\ MgIdle /\ GsIdle /\ WpIdle
    /\ StIdle /\ SmIdle

GaNext ==
    \/ GaCallBegins
    \/ GaCallResumes

SpecVoice == GaInit /\ [][GaNext]_vars

\* ------------------------------------------------ translate_segments: claims
NumBatches(n) == (n + BatchSize - 1) \div BatchSize

LastCall == tr_calls[Len(tr_calls)]

\* C1: translate_segments returns exactly as many segments as it was given,
\* whatever each batch's call did (full, partial or malformed response, or
\* an exception); after each batch the output covers exactly the segments of
\* the batches processed so far.
C1_SameLength ==
    /\ tr_pc = "done" => Len(translated_segments) = Len(segments)
    /\ tr_pc = "loop" => Len(translated_segments) = Min(tr_i, Len(segments))

\* C1 witness: a finished run over two batches, one call raising, the other
\* answering with a response that tags no segment.
C1_Witness ==
    /\ tr_pc = "done"
    /\ Len(segments) > BatchSize
    /\ Len(translated_segments) = Len(segments)
    /\ tr_calls[1].outcome = "raised"
    /\ tr_calls[2].outcome = "returned"
    /\ DOMAIN ParseTranslations(tr_response) = {}

\* The tag of a response line as split by the program: the integer between a
\* leading "[" and the first "]"; -1 when the line carries no such tag.
TagOf(line) ==
    IF line # <<>> /\ Head(line) = "[" /\ (\E k \in 1..Len(line) : line[k] = "]")
    THEN LET close == CHOOSE k \in 1..Len(line) :
                          line[k] = "]" /\ \A j \in 1..(k - 1) : line[j] # "]"
             inner == Strip(SubSeq(line, 2, close - 1))
         IN  IF inner # <<>> /\ \A k \in 1..Len(inner) : IsDigit(inner[k])
             THEN DigitsVal(inner) ELSE -1
    ELSE -1

\* The text that follows the tag of a tagged line
TextOf(line) ==
    LET close == CHOOSE k \in 1..Len(line) :
                     line[k] = "]" /\ \A j \in 1..(k - 1) : line[j] # "]"
    IN  Strip(SubSeq(line, close + 1, Len(line)))

SetMax(S) == CHOOSE x \in S : \A y \in S : y <= x

\* C2: in a batch whose call returned, the segment at batch position i
\* carries the text of the (last) response line tagged [i] when there is
\* one and its source text otherwise, and every segment of the batch is
\* present; a response tagging only 0 and 2 for 3 segments leaves segment 1
\* with its source text.
C2_TaggedOrFallback ==
    (tr_calls # <<>> /\ LastCall.outcome = "returned") =>
        LET lines == StripSplit(tr_response)
            start == LastCall.start
            batch == Batch(segments, start)
        IN  /\ Len(translated_segments) = start + Len(batch)
            /\ \A p \in 1..Len(batch) :
                  LET tagged == {k \in 1..Len(lines) : TagOf(lines[k]) = p - 1}
                      out    == translated_segments[start + p]
                  IN  IF tagged # {}
                      THEN out.text = TextOf(lines[SetMax(tagged)])
                      ELSE out.text = segments[start + p].text
            /\ (Len(segments) = 3
                 /\ tr_response = << <<"[", "0", "]", " ", "a">>,
                                     <<"[", "2", "]", "c", " ">> >>)
                => /\ translated_segments[1].text = <<"a">>
                   /\ translated_segments[2].text = SrcText(1)
                   /\ translated_segments[3].text = <<"c">>

\* C2 witness: 3 segments, the response tags indices 0 and 2 only.
C2_Witness ==
    /\ tr_pc = "done"
    /\ Len(segments) = 3
    /\ LastCall.outcome = "returned"
    /\ tr_response = << <<"[", "0", "]", " ", "a">>, <<"[", "2", "]", "c", " ">> >>
    /\ Len(translated_segments) = 3
    /\ translated_segments[2].text = SrcText(1)

\* C3: a batch whose call raised is emitted with its untranslated text; a
\* step of the loop only appends, leaving the segments of earlier batches
\* as they were; and every batch gets its call, also after a batch that
\* raised: on return one call was made per batch, at starts 0, 10, 20, ...
C3_Inv ==
    /\ \A b \in 1..Len(tr_calls) :
          /\ tr_calls[b].start = (b - 1) * BatchSize
          /\ tr_calls[b].outcome = "raised" =>
                \A k \in (tr_calls[b].start + 1)..Min(tr_calls[b].start + BatchSize,
                                                      Len(segments)) :
                    /\ k <= Len(translated_segments)
                    /\ translated_segments[k].text = segments[k].text
    /\ tr_pc = "done" => Len(tr_calls) = NumBatches(Len(segments))

C3_AppendOnly ==
    /\ Len(translated_segments') >= Len(translated_segments)
    /\ \A k \in 1..Len(translated_segments) :
          translated_segments'[k] = translated_segments[k]

C3_BatchFailureIsLocal == [](C3_Inv) /\ [][C3_AppendOnly]_vars

\* C3 witness: the first batch raised, the second was still sent and was
\* translated.
C3_Witness ==
    /\ tr_pc = "done"
    /\ Len(tr_calls) = 2
    /\ tr_calls[1].outcome = "raised"
    /\ tr_calls[2].outcome = "returned"
    /\ translated_segments[1].text = SrcText(0)
    /\ translated_segments[BatchSize + 1].text = <<"a">>

\* C4: the k-th output segment has the start_time, end_time and confidence
\* of the k-th input segment, on the success and on the fallback path and
\* across batch boundaries.
C4_TimingPreserved ==
    \A k \in 1..Len(translated_segments) :
        /\ k <= Len(segments)
        /\ translated_segments[k].start_time = segments[k].start_time
        /\ translated_segments[k].end_time = segments[k].end_time
        /\ translated_segments[k].confidence = segments[k].confidence

\* C4 witness: two batches, one translated and one fallen back, the segment
\* right after the batch boundary in place.
C4_Witness ==
    /\ tr_pc = "done"
    /\ Len(segments) = BatchSize + 2
    /\ tr_calls[1].outcome = "returned"
    /\ tr_calls[2].outcome = "raised"
    /\ translated_segments[1].text = <<"a">>
    /\ translated_segments[BatchSize + 1].start_time = segments[BatchSize + 1].start_time
    /\ translated_segments[BatchSize + 2].text = SrcText(BatchSize + 1)


\* ------------------------------------ generate_speech_for_segments: claims
\* Indices of the input segments that have an entry in a list of entries
EntryIndices(data) ==
    {idx \in 0..(Len(tts_segments) - 1) :
        \E k \in 1..Len(data) :
            /\ data[k].start_time = tts_segments[idx + 1].start_time
            /\ data[k].end_time = tts_segments[idx + 1].end_time}

\* Indices whose generation succeeded in some invocation
Succeeded == {gen_log[k].idx : k \in {j \in 1..Len(gen_log) : gen_log[j].ok}}

\* Indices whose generation succeeded in the first pass
SucceededFirst ==
    {gen_log[k].idx : k \in {j \in 1..Len(gen_log) : gen_log[j].ok /\ gen_log[j].pass = 0}}

\* Indices for which generation was invoked in a reconciliation pass
Reinvoked == {gen_log[k].idx : k \in {j \in 1..Len(gen_log) : gen_log[j].pass >= 1}}

FailuresOf(idx) == Cardinality({k \in 1..Len(gen_log) : gen_log[k].idx = idx /\ ~gen_log[k].ok})

\* Input indices with no clip in the result
Dropped == {idx \in 0..(Len(tts_segments) - 1) : idx \notin EntryIndices(segments_data)}

\* C5: generate_speech_for_segments always returns a result, and the result
\* holds exactly the segments whose generation succeeded in some pass: every
\* entry is an input segment, and a succeeded segment is never removed by
\* the failure of another one.
C5_PartialResult ==
    /\ \A k \in 1..Len(segments_data) :
          \E idx \in Succeeded :
              /\ idx < Len(tts_segments)
              /\ segments_data[k].audio_path = SegmentPath(idx)
              /\ segments_data[k].start_time = tts_segments[idx + 1].start_time
    /\ \A idx \in Succeeded : idx \in EntryIndices(segments_data)
    /\ tts_pc = "done" =>
          /\ tts_result.returned
          /\ tts_result.segments = segments_data
          /\ EntryIndices(tts_result.segments) = Succeeded

\* C5 witness: of 3 segments the last one failed in the first pass and in
\* both reconciliation passes; the result holds the other two.
C5_Witness ==
    /\ tts_pc = "done"
    /\ Len(tts_segments) = 3
    /\ Len(translated_texts) = 3
    /\ FailuresOf(2) = 3
    /\ tts_result.returned
    /\ EntryIndices(tts_result.segments) = {0, 1}

\* C6 (as claimed): at return, every index below expected_count that names a
\* segment and got no clip in the first pass was generated again in a
\* reconciliation pass, and an index that succeeded there is in the result.
C6_MissingIsRetried ==
    tts_pc = "done" =>
        \A idx \in 0..(ExpectedCount(tts_segments, translated_texts) - 1) :
            (idx < Len(tts_segments) /\ idx \notin SucceededFirst) =>
                /\ idx \in Reinvoked
                /\ idx \in Succeeded => idx \in EntryIndices(tts_result.segments)

\* C7 (as claimed, already for lists of equal length): a result that dropped
\* segments carries their indices in its metadata, under some key besides
\* the list of the produced clips.
C7_DroppedInMetadata ==
    (tts_pc = "done" /\ Dropped # {} /\ Len(translated_texts) = Len(tts_segments)) =>
        \E key \in (DOMAIN tts_result.metadata) \ {"audio_files"} :
            SeqToSet(tts_result.metadata[key]) = Dropped

\* C8 (as claimed): the operation returns a result when at least one segment
\* produced a clip and signals an error, returning none, when generation was
\* attempted and no segment produced a clip.
C8_FailsOnlyOnZeroClips ==
    tts_pc = "done" =>
        /\ audio_files # <<>> => tts_result.returned
        /\ (gen_log # <<>> /\ audio_files = <<>>) => ~tts_result.returned

\* ------------------------------------------------------ run: claims
\* C9 (as claimed): when speech synthesis ran and no segment produced a
\* clip, run raises at that stage boundary: composition is never started.
C9_NoComposeWithoutClips ==
    (cli_pc # "idle" /\ tts_pc = "done" /\ gen_log # <<>> /\ audio_files = <<>>) =>
        /\ cli_pc \in {"tts", "raised"}
        /\ "compose" \notin SeqToSet(cli_stages)

\* ------------------------------------ generate_speech_with_timing: claims
\* C10: whatever each attempt yields (no clip, a fitting clip, an overrunning
\* clip), at most max_attempts generation calls are made, one per attempt,
\* and the call returns.
C10_Inv ==
    /\ Len(tm_calls) = tm_attempt
    /\ tm_attempt <= tm_max_attempts
    /\ tm_pc = "done" => tm_result.returned

C10_BoundedAttempts == [](C10_Inv) /\ <>(tm_pc = "done")

\* C10 witness: with the default budget of 3 the first attempt produced no
\* clip, the second overran, the third overran again and was returned.
C10_Witness ==
    /\ tm_pc = "done"
    /\ tm_max_attempts = 3
    /\ Len(tm_calls) = 3
    /\ tm_calls[2].speed = Frac(1, 1)
    /\ tm_calls[3].speed # Frac(1, 1)
    /\ tm_result.path
    /\ Overruns(tm_result.duration, tm_window)

\* Whether a produced duration is above 110% of the window
Above110(produced, window) == 10 * produced > 11 * window

\* C11: a generation call that produced a clip of at most 110% of the window
\* is the last call made: the clip is kept and returned with its duration.
C11_FittingClipAccepted ==
    \A k \in 1..Len(tm_calls) :
        (tm_calls[k].produced # NoClip /\ ~Above110(tm_calls[k].produced, tm_window)) =>
            /\ k = Len(tm_calls)
            /\ tm_pc = "done"
            /\ tm_result.returned
            /\ tm_result.path
            /\ tm_result.duration = tm_calls[k].produced
            /\ tm_clip = tm_calls[k].produced

\* C11 witness: a 2.1 s clip for a 2 s window, produced by the first of 3
\* attempts, was returned after that single call.
C11_Witness ==
    /\ tm_pc = "done"
    /\ tm_window = 20
    /\ tm_max_attempts = 3
    /\ Len(tm_calls) = 1
    /\ tm_calls[1].produced = 21
    /\ tm_result.path
    /\ tm_result.duration = 21

\* x = min(2, s * produced / window) for fractions x and s
IsCappedProduct(x, s, produced, window) ==
    LET n == s[1] * produced
        d == s[2] * window
    IN  IF n >= 2 * d THEN x[1] = 2 * x[2] ELSE x[1] * d = n * x[2]

\* C12: the first call is made with multiplier 1.0; after a call whose clip
\* overran with attempts left the clip is gone and the next call is made
\* with min(2.0, previous * produced / window); after a call without a clip
\* the multiplier is unchanged; no call is made with more than 2.0.
C12_SpeedMultiplier ==
    /\ tm_calls # <<>> => tm_calls[1].speed = <<1, 1>>
    /\ \A k \in 1..Len(tm_calls) : tm_calls[k].speed[1] <= 2 * tm_calls[k].speed[2]
    /\ \A k \in 1..(Len(tm_calls) - 1) :
          IF tm_calls[k].produced = NoClip
          THEN tm_calls[k + 1].speed = tm_calls[k].speed
          ELSE /\ Above110(tm_calls[k].produced, tm_window)
               /\ IsCappedProduct(tm_calls[k + 1].speed, tm_calls[k].speed,
                                   tm_calls[k].produced, tm_window)
    /\ (/\ tm_pc = "loop"
        /\ tm_calls # <<>>
        /\ tm_calls[Len(tm_calls)].produced # NoClip) =>
          /\ tm_clip = NoClip
          /\ IsCappedProduct(tm_speed, tm_calls[Len(tm_calls)].speed,
                              tm_calls[Len(tm_calls)].produced, tm_window)

\* C12 witness: 2 s window, a 4.4 s first clip, a second call with
\* multiplier 2.0 whose 2.1 s clip was returned.
C12_Witness ==
    /\ tm_pc = "done"
    /\ tm_window = 20
    /\ Len(tm_calls) = 2
    /\ tm_calls[1].produced = 44
    /\ tm_calls[2].speed = <<2, 1>>
    /\ tm_calls[2].instruction = "very quickly"
    /\ tm_calls[2].produced = 21
    /\ tm_result.path
    /\ tm_result.duration = 21

\* C13: a clip produced by attempt number max_attempts is returned with its
\* duration even when it is above 110% of the window.
C13_LastClipKept ==
    (/\ tm_pc = "done"
     /\ tm_max_attempts > 0
     /\ Len(tm_calls) = tm_max_attempts
     /\ tm_calls[Len(tm_calls)].produced # NoClip) =>
        /\ tm_result.returned
        /\ tm_result.path
        /\ tm_result.duration = tm_calls[Len(tm_calls)].produced
        /\ tm_clip = tm_calls[Len(tm_calls)].produced

\* C13 witness: three attempts for a 1 s window all overran; the 4.4 s clip
\* of the third attempt was returned.
C13_Witness ==
    /\ tm_pc = "done"
    /\ tm_window = 10
    /\ tm_max_attempts = 3
    /\ Len(tm_calls) = 3
    /\ \A k \in 1..3 : tm_calls[k].produced = 44
    /\ tm_result.path
    /\ tm_result.duration = 44

\* ------------------------- generate_speech_for_segments: result contents
\* The segment index named by the clip file of an entry
ClipIndex(entry) == PyInt(LastField(entry.audio_path)).val

\* C14 (as claimed): the entries of the returned result are in ascending
\* order of the segment index of their clips.
C14_AscendingOrder ==
    tts_pc = "done" =>
        \A j, k \in 1..Len(tts_result.segments) :
            j < k => ClipIndex(tts_result.segments[j]) < ClipIndex(tts_result.segments[k])

\* C15: an entry whose clip is the file of index i has the start_time and
\* end_time of input segment i and the text translated_texts[i], or the
\* text of segment i when there is no translated text for i.
C15_EntryMatchesSegment ==
    \A k \in 1..Len(segments_data) :
        LET i == ClipIndex(segments_data[k])
        IN  /\ segments_data[k].audio_path = SegmentPath(i)
            /\ i < Len(tts_segments)
            /\ segments_data[k].start_time = tts_segments[i + 1].start_time
            /\ segments_data[k].end_time = tts_segments[i + 1].end_time
            /\ segments_data[k].text =
                   IF i < Len(translated_texts) THEN translated_texts[i + 1]
                   ELSE tts_segments[i + 1].text

\* C15 witness: 3 segments and 2 translated texts; segment 2 was generated
\* in the first pass (own text), segments 0 and 1 in a reconciliation pass
\* (translated texts).
C15_Witness ==
    /\ tts_pc = "done"
    /\ Len(tts_segments) = 3
    /\ Len(translated_texts) = 2
    /\ SucceededFirst = {2}
    /\ Succeeded = {0, 1, 2}
    /\ Len(tts_result.segments) = 3
    /\ tts_result.segments[1].text = tts_segments[3].text
    /\ tts_result.segments[2].text = translated_texts[1]

\* C16: at return metadata["audio_files"] lists, position by position, the
\* audio_path of the entries of segments; when no generation failed, both
\* have one element per input segment and no generation call was made in a
\* reconciliation pass.
C16_FilesMatchSegments ==
    tts_pc = "done" =>
        /\ Len(tts_result.metadata["audio_files"]) = Len(tts_result.segments)
        /\ \A k \in 1..Len(tts_result.segments) :
              tts_result.metadata["audio_files"][k] = tts_result.segments[k].audio_path
        /\ (\A k \in 1..Len(gen_log) : gen_log[k].ok) =>
              /\ Len(tts_result.segments) = Len(tts_segments)
              /\ Reinvoked = {}

\* C16 witness: 3 segments, 3 translated texts, every generation succeeded.
C16_Witness ==
    /\ tts_pc = "done"
    /\ Len(tts_segments) = 3
    /\ Len(translated_texts) = 3
    /\ Len(gen_log) = 3
    /\ \A k \in 1..3 : gen_log[k].ok
    /\ Len(tts_result.metadata["audio_files"]) = 3

\* The largest end_time among entries, 0 when there is none
RECURSIVE MaxEndTime(_)
MaxEndTime(data) ==
    IF data = <<>> THEN 0
    ELSE LET rest == MaxEndTime(Tail(data))
         IN  IF data[1].end_time > rest THEN data[1].end_time ELSE rest

\* The sum of the sizes of the clip files of entries
RECURSIVE SumClipBytes(_)
SumClipBytes(data) ==
    IF data = <<>> THEN 0 ELSE fs[data[1].audio_path] + SumClipBytes(Tail(data))

\* C17: the duration of the result is the largest end_time of its entries
\* and its size the sum of the sizes of their clip files; a segment without
\* an entry adds to neither.
C17_DurationAndSize ==
    tts_pc = "done" =>
        /\ tts_result.duration = MaxEndTime(tts_result.segments)
        /\ tts_result.file_size = SumClipBytes(tts_result.segments)

\* C17 witness: of 3 segments the last was dropped and segment 0 came from a
\* reconciliation pass, after segment 1; the duration is the end of
\* segment 1 and the size that of clips 0 and 1.
C17_Witness ==
    /\ tts_pc = "done"
    /\ Len(tts_segments) = 3
    /\ Len(translated_texts) = 3
    /\ SucceededFirst = {1}
    /\ Succeeded = {0, 1}
    /\ tts_result.duration = tts_segments[2].end_time
    /\ tts_result.file_size = ClipSize(0) + ClipSize(1)

\* ------------------------------------------------ transcribe_audio: claims
\* The timestamps the segments of a call have in the whole audio: the raw
\* timestamps moved by the place where the chunk was cut
RECURSIVE TimesInAudio(_, _)
TimesInAudio(raw, cut) ==
    IF raw = <<>> THEN <<>>
    ELSE <<[start_time |-> raw[1].start + cut, end_time |-> raw[1].end + cut]>>
         \o TimesInAudio(Tail(raw), cut)

RECURSIVE TimesOfCalls(_)
TimesOfCalls(calls) ==
    IF calls = <<>> THEN <<>>
    ELSE TimesInAudio(calls[1].segments, calls[1].cut) \o TimesOfCalls(Tail(calls))

\* C18: chunk i was cut at chunk_length * i (chunk_length = 300), and every
\* segment obtained from chunk i has its raw timestamps plus chunk_length * i;
\* the segments of chunk 0 keep their raw timestamps.
C18_ChunkOffset ==
    /\ \A k \in 1..Len(ts_calls) :
          /\ ts_calls[k].chunk = k - 1
          /\ ts_calls[k].cut = SplitMaxDuration * ts_calls[k].chunk
          /\ SplitMaxDuration = 300
    /\ Len(ts_all_segments) = Len(TimesOfCalls(ts_calls))
    /\ \A k \in 1..Len(ts_all_segments) :
          /\ ts_all_segments[k].start_time = TimesOfCalls(ts_calls)[k].start_time
          /\ ts_all_segments[k].end_time = TimesOfCalls(ts_calls)[k].end_time
    /\ ts_pc = "done" => ts_result.segments = ts_all_segments

\* C18 witness: a 700 s audio cut into 3 chunks; the first segment of the
\* last chunk, raw [0, 3), is placed at [600, 603).
C18_Witness ==
    /\ ts_pc = "done"
    /\ ts_audio.duration = 700
    /\ Len(ts_calls) = 3
    /\ Len(ts_calls[1].segments) = 1
    /\ Len(ts_calls[2].segments) = 0
    /\ Len(ts_calls[3].segments) = 2
    /\ ts_result.segments[1].start_time = 0
    /\ ts_result.segments[2].start_time = 600
    /\ ts_result.segments[2].end_time = 603
    /\ ts_result.segments[3].start_time = 604

\* C19 (as claimed): when transcribe_audio has returned or raised, no chunk
\* file made by split_audio is left.
C19_ChunksDeleted ==
    ts_pc \in {"done", "raised"} => DOMAIN ts_files = {}

\* C20: the language of the result is the one reported for the first chunk.
C20_FirstChunkLanguage ==
    ts_pc = "done" =>
        /\ ts_calls # <<>>
        /\ ts_result.language = ts_calls[1].language

\* C20 witness: three chunks reported en, ja, ja; the result says en.
C20_Witness ==
    /\ ts_pc = "done"
    /\ Len(ts_calls) = 3
    /\ ts_calls[1].language = "en"
    /\ ts_calls[2].language = "ja"
    /\ ts_calls[3].language = "ja"
    /\ ts_result.language = "en"

\* -------------------------------------------- merge_audio_segments: claims
\* Whether the supplied segment at position k has a clip file
HasClip(k) == mg_segments[k].has_audio_path /\ mg_segments[k].audio_path \in mg_fs

\* The positions of the supplied segments that have a clip, in order
RECURSIVE ClipPositionsFrom(_)
ClipPositionsFrom(k) ==
    IF k > Len(mg_segments) THEN <<>>
    ELSE (IF HasClip(k) THEN <<k>> ELSE <<>>) \o ClipPositionsFrom(k + 1)

\* C21: when no supplied segment has an existing clip file (the list may be
\* empty), every call ends with ValueError and no mixing process is started.
C21_NoClipsIsAnError ==
    (\A k \in 1..Len(mg_segments) : ~HasClip(k)) =>
        /\ mg_processes = <<>>
        /\ mg_pc \in {"start", "raised"}
        /\ \A r \in 1..Len(mg_runs) : mg_runs[r] = "ValueError"

\* C21 witness: two segments name clip files that do not exist; the call
\* raised without starting a process.
C21_Witness ==
    /\ mg_pc = "raised"
    /\ Len(mg_segments) = 2
    /\ \A k \in 1..2 : mg_segments[k].has_audio_path /\ mg_segments[k].audio_path \notin mg_fs
    /\ mg_runs = <<"ValueError">>
    /\ mg_processes = <<>>

\* C22: every run on the same segments and files requests the same -t, and
\* it is the largest end among the supplied segments.
C22_SameTimeline ==
    \A r \in 1..Len(mg_processes) :
        /\ mg_processes[r].t = mg_processes[1].t
        /\ \E k \in 1..Len(mg_segments) :
              /\ mg_processes[r].t = FloatStr(mg_segments[k].end)
              /\ \A j \in 1..Len(mg_segments) : mg_segments[j].end <= mg_segments[k].end

\* C22 witness: two runs on a list whose first segment ends last, at 6.0 s;
\* both asked for 6.0.
C22_Witness ==
    /\ Len(mg_processes) = 2
    /\ Len(mg_runs) = 2
    /\ Len(mg_segments) = 3
    /\ mg_segments[1].end = 60
    /\ mg_segments[3].end = 20
    /\ mg_processes[1].t = <<"6", ".", "0">>
    /\ mg_processes[2].t = <<"6", ".", "0">>

\* C23: the mixer gets the clips in the order supplied, and input k is
\* delayed by the start of the segment that supplied it, in milliseconds;
\* every delayed input is mixed.
C23_OrderAndOffsets ==
    \A r \in 1..Len(mg_processes) :
        LET cmd == mg_processes[r]
            pos == ClipPositionsFrom(1)
        IN  /\ Len(cmd.inputs) = Len(pos)
            /\ Len(cmd.delays) = Len(pos)
            /\ cmd.mix_inputs = Len(pos)
            /\ Len(cmd.mix_labels) = Len(pos)
            /\ \A k \in 1..Len(pos) :
                  /\ cmd.inputs[k] = mg_segments[pos[k]].audio_path
                  /\ cmd.delays[k].input = k - 1
                  /\ cmd.delays[k].delay_ms = 100 * mg_segments[pos[k]].start
                  /\ cmd.delays[k].label = k - 1
                  /\ cmd.mix_labels[k] = k - 1

\* C23 witness: segments 2, 0, 1 are supplied in that order and the file of
\* segment 0 is missing; the mixer gets clip 2 delayed 4000 ms, then clip 1
\* delayed 2000 ms.
C23_Witness ==
    /\ mg_pc = "returned"
    /\ Len(mg_segments) = 3
    /\ mg_segments[1].start = 40
    /\ mg_segments[2].start = 0
    /\ mg_segments[3].start = 20
    /\ ~HasClip(2)
    /\ Len(mg_processes) = 1
    /\ mg_processes[1].inputs = <<SegmentPath(2), SegmentPath(1)>>
    /\ mg_processes[1].delays[1].delay_ms = 4000
    /\ mg_processes[1].delays[2].delay_ms = 2000

\* ------------------------------------------------------ run: stage order
\* The place of a stage in the pipeline
StageOrder ==
    <<"setup", "download", "extract", "transcribe", "translate", "subtitle", "tts",
      "merge", "compose">>

Rank(stage) == CHOOSE r \in 1..Len(StageOrder) : StageOrder[r] = stage

\* The stages started so far keep the pipeline order and none is repeated;
\* the stage being run comes after all of them
C24_Inv ==
    /\ \A j, k \in 1..Len(cli_stages) : j < k => Rank(cli_stages[j]) < Rank(cli_stages[k])
    /\ cli_pc \notin {"idle", "returned", "raised"} =>
          \A k \in 1..Len(cli_stages) : Rank(cli_stages[k]) < Rank(cli_pc)

\* run leaves a stage only for a later stage, and only when the stage's
\* callee is done, or for the caller with the error; after an error nothing
\* more is started
C24_Step ==
    /\ cli_pc \in {"raised", "returned"} => UNCHANGED <<cli_pc, cli_stages>>
    /\ cli_pc' # cli_pc =>
          /\ cli_stages' = Append(cli_stages, cli_pc)
          /\ cli_pc' \notin {"raised", "returned"} => Rank(cli_pc') > Rank(cli_pc)
          /\ (cli_pc = "translate" /\ cli_pc' # "raised") => tr_pc = "done"
          /\ (cli_pc = "tts" /\ cli_pc' # "raised") => tts_pc = "done"
    /\ cli_pc' = cli_pc => cli_stages' = cli_stages

\* C24: the stages of run start in the order download, extraction,
\* transcription, translation, subtitles, synthesis, assembly, composition,
\* each at most once and each after the previous one succeeded; a failure
\* ends the run with no later stage started.
C24_StagesInOrder == [](C24_Inv) /\ [][C24_Step]_vars

\* C24 witness: the run failed in the assembly after the six stages before
\* it were started in order; composition was never started.
C24_Witness ==
    /\ cli_pc = "raised"
    /\ cli_stages = <<"setup", "download", "extract", "transcribe", "translate",
                      "subtitle", "tts", "merge">>

\* C25 (as claimed): a run without speech synthesis in which no collaborator
\* fails eventually returns the final video.
C25_EventuallyReturns ==
    (cli_pc = "setup" /\ ~cli_use_tts) =>
        <>(\/ cli_pc = "returned"
           \/ (cli_pc = "raised" /\ cli_stages[Len(cli_stages)] \in RaisingStages))

\* ------------------------------------------ transcribe_audio: failure
\* C26: when the recognition call fails for a chunk, transcribe_audio ends
\* with that error and returns nothing, whatever was transcribed before; a
\* result is returned only when the call returned for every chunk.
C26_NoPartialResult ==
    /\ (ts_pc = "raised" /\ ts_audio_segments # <<>>) =>
          /\ ~ts_result.returned
          /\ ts_result.error = "APIError"
          /\ Len(ts_calls) < Len(ts_audio_segments)
    /\ ts_result.returned =>
          /\ ts_pc = "done"
          /\ Len(ts_calls) = Len(ts_audio_segments)

\* C26 witness: the call failed on the third chunk after two chunks gave
\* segments; nothing was returned.
C26_Witness ==
    /\ ts_pc = "raised"
    /\ Len(ts_audio_segments) = 3
    /\ Len(ts_calls) = 2
    /\ Len(ts_all_segments) = 4
    /\ ~ts_result.returned
    /\ ts_result.error = "APIError"

\* ----------------------- generate_speech_for_segments: reconciliation bound
\* How many times generation was invoked for idx
InvocationsOf(idx) == Cardinality({k \in 1..Len(gen_log) : gen_log[k].idx = idx})

\* Indices below expected_count with no successful generation up to pass p
MissingAfterPass(p) ==
    {idx \in 0..(ExpectedCount(tts_segments, translated_texts) - 1) :
        ~\E k \in 1..Len(gen_log) :
            gen_log[k].idx = idx /\ gen_log[k].ok /\ gen_log[k].pass <= p}

C27_Inv ==
    /\ retry_count <= 2
    /\ \A k \in 1..Len(gen_log) : gen_log[k].pass <= 2
    /\ \A idx \in 0..(Len(tts_segments) - 1) : InvocationsOf(idx) <= 3
    /\ \A p \in 1..2 : retry_count >= p => MissingAfterPass(p - 1) # {}
    /\ \A k \in 1..Len(gen_log) :
          gen_log[k].pass >= 1 => gen_log[k].idx \in MissingAfterPass(gen_log[k].pass - 1)

\* C27: there are at most 2 reconciliation passes, a pass is only started
\* while an index is missing and only invokes generation for missing
\* indices, no index is generated more than 3 times, and the operation
\* returns.
C27_BoundedReconciliation == [](C27_Inv) /\ <>(tts_pc = "done")

\* C27 witness: segment 1 of 2 failed in the first pass and in both
\* reconciliation passes, and the operation returned with segment 0 only.
C27_Witness ==
    /\ tts_pc = "done"
    /\ Len(tts_segments) = 2
    /\ Len(translated_texts) = 2
    /\ retry_count = 2
    /\ InvocationsOf(1) = 3
    /\ InvocationsOf(0) = 1
    /\ FailuresOf(1) = 3
    /\ tts_result.returned

\* ------------------------------------------- generate_speech_segment: claims
AudioCalls == {k \in 1..Len(gs_calls) : gs_calls[k] = "audio"}

\* C28: generate_speech_segment calls the service at most 3 times, stops at
\* the first call that yields audio data, having written the clip and
\* returning its path, returns no clip after three failed calls, whether
\* they were empty responses or exceptions, and never lets an exception
\* reach its caller.
C28_BoundedRetry ==
    /\ Len(gs_calls) <= 3
    /\ gs_pc # "raised"
    /\ AudioCalls \subseteq {Len(gs_calls)}
    /\ AudioCalls # {} =>
          /\ gs_pc = "returned"
          /\ gs_result = SegmentReturn(OutputPath)
          /\ OutputPath \in gs_fs
    /\ (gs_pc = "returned" /\ AudioCalls = {}) =>
          /\ Len(gs_calls) = 3
          /\ gs_result = SegmentReturn(NoPath)
          /\ gs_fs = {}

C28_Witness ==
    /\ gs_pc = "returned"
    /\ gs_calls = <<"empty", "raised", "raised">>
    /\ gs_result = SegmentReturn(NoPath)
    /\ gs_style_params # NoStyle
    /\ gs_full_text # gs_text


\* ------------------------- generate_speech_for_segments: tasks in flight
\* The awaits are sequential: no two coroutines execute together
SequentialAwait == Cardinality(running) <= 1

\* C29 (as claimed): the tasks of all segments are started before any of
\* them is awaited, so while the first pass waits for a task every task not
\* yet finished is executing.
C29_AllStartedBeforeAwait ==
    (tts_pc = "first" /\ running # {}) =>
        \A k \in (tts_k + 1)..Len(tasks) : tasks[k].idx \in running

\* ------------------------- generate_speech_for_segments: one clip per index
SuccessesOf(idx) ==
    Cardinality({k \in 1..Len(gen_log) : gen_log[k].idx = idx /\ gen_log[k].ok})

NoRepeat(q) == \A j, k \in 1..Len(q) : q[j] = q[k] => j = k

\* C30: the clip of a segment index is written at most once, and in the
\* returned result no segment index appears twice among segments or among
\* metadata["audio_files"], whatever the first pass and the reconciliation
\* passes did.
C30_OneClipPerIndex ==
    /\ \A idx \in 0..(MaxTtsSegments - 1) : SuccessesOf(idx) <= 1
    /\ tts_pc = "done" =>
          /\ NoRepeat([k \in 1..Len(tts_result.segments) |->
                          ClipIndex(tts_result.segments[k])])
          /\ NoRepeat(tts_result.metadata["audio_files"])

\* C30 witness: three segments; the first pass produced two clips and the
\* second reconciliation pass the missing one.
C30_Witness ==
    /\ tts_pc = "done"
    /\ Len(tts_segments) = 3
    /\ Len(tts_result.segments) = 3
    /\ \E k \in 1..Len(gen_log) : gen_log[k].ok /\ gen_log[k].pass = 2
    /\ \E k \in 1..Len(gen_log) : gen_log[k].ok /\ gen_log[k].pass = 0


\* ----------------------------- the two synthesizers: top-level reconciliation
\* The segment indices that have a clip in a result
ClipIndices(result) == {ClipIndex(result.segments[k]) : k \in 1..Len(result.segments)}

\* The outcome of the base synthesizer's first generation for an index
FirstOutcomeOf(idx) ==
    gen_log[CHOOSE k \in 1..Len(gen_log) :
                /\ gen_log[k].idx = idx
                /\ \A j \in 1..(k - 1) : gen_log[j].idx # idx].ok

\* Every generation of the timing-aware synthesizer ended as the base
\* synthesizer's generation of the same index in the same pass did
SameOutcomes ==
    \A k \in 1..Len(wp_log) :
        /\ \E j \in 1..Len(gen_log) : gen_log[j].idx = wp_log[k].idx
        /\ wp_log[k].ok = FirstOutcomeOf(wp_log[k].idx)

\* C31 (as claimed): the timing-aware synthesizer reconciles as the base one
\* does, so when both have returned under the same per-invocation outcomes
\* both hold a clip for the same segment indices.
C31_SameClipIndices ==
    (tts_pc = "done" /\ wp_pc = "done" /\ SameOutcomes) =>
        ClipIndices(wp_result) = ClipIndices(tts_result)

\* The divergence with as many translated texts as segments: the base
\* synthesizer regenerated a clip the timing-aware one never retried
C31_Divergence ==
    /\ tts_pc = "done"
    /\ wp_pc = "done"
    /\ SameOutcomes
    /\ Len(tts_segments) = Len(translated_texts)
    /\ ClipIndices(wp_result) # ClipIndices(tts_result)
    /\ \A k \in 1..Len(wp_log) : Cardinality({j \in 1..Len(wp_log) : wp_log[j].idx = wp_log[k].idx}) = 1


\* --------------------------------------- translate_segments: calls and delay
\* C32: translate_segments makes exactly one translation call per batch of
\* at most 10 consecutive segments, in input order, and waits before the
\* call of every batch but the first; nothing is waited before the first.
C32_OneCallPerBatch ==
    /\ \A k \in 1..Len(tr_calls) :
          /\ tr_calls[k].start = 10 * (k - 1)
          /\ tr_calls[k].start < Len(segments)
          /\ tr_calls[k].slept = (k > 1)
    /\ Len(translated_segments) = Min(10 * Len(tr_calls), Len(segments))
    /\ tr_pc = "done" => 10 * (Len(tr_calls) - 1) < Len(segments)
    /\ tr_pc = "done" => Len(segments) <= 10 * Len(tr_calls)

\* C32 witness: more than ten segments, translated with two calls of which
\* the first raised.
C32_Witness ==
    /\ tr_pc = "done"
    /\ Len(segments) > 10
    /\ Len(tr_calls) = 2
    /\ tr_calls[1].outcome = "raised"
    /\ ~tr_calls[1].slept
    /\ tr_calls[2].slept


\* ------------------------ generate_speech_for_segments: style failures
\* The analysis of segment idx failed: the slice was not extracted, the
\* iteration raised, or the style-analysis calls failed
StyleFailed(idx) == st_log[idx + 1].kind \in {"extract_failed", "raised", "call_failed"}

C34_NoSynthesisWhenDisabled ==
    (~cli_use_tts \/ cli_translation_only) =>
        /\ tts_pc = "idle"
        /\ gen_log = <<>>
        /\ cli_pc \notin {"tts", "merge"}
        /\ \A k \in 1..Len(cli_stages) : cli_stages[k] \notin {"tts", "merge"}
        /\ ~cli_audio_file
        /\ AudioStream(cli_audio_file) = "original"

\* C34 witness: synthesis requested for a translation-only language; the
\* run translated two segments and reached the call of the composition.
C34_Witness ==
    /\ cli_use_tts
    /\ cli_translation_only
    /\ Len(translated_segments) = 2
    /\ cli_stages # <<>>
    /\ cli_stages[Len(cli_stages)] = "compose"


GoneAfterExitById ==
    \A t \in Threads : sm_at_exit[t].exited => ~sm_at_exit[t].id_active

\* The threads inside a session_context: registered and not yet popped
InsideContext == {t \in Threads : sm_pc[t] \in {"body", "finally"}}

\* C37 (as claimed): while a session is active its session directory
\* exists, whatever other contexts and cleanup_old_sessions do.
C37_ActiveDirExists ==
    \A t \in Threads : sm_pc[t] = "body" => sm_id[t] \in sm_dirs

\* C38 (as claimed): get_active_sessions returns exactly the ids of the
\* contexts entered and not yet left.
C38_ActiveSetExact ==
    GetActiveSessions = {sm_id[t] : t \in InsideContext}

\* Some attempt of the call generated a clip
SomeAttemptProduced == \E k \in 1..Len(tm_calls) : tm_calls[k].produced # NoClip

\* C36: generate_speech_with_timing returns no clip only when every attempt
\* failed to generate audio: once any attempt of the call has produced a
\* clip, the finished call returns a clip, also when a later attempt fails
\* after an earlier overrunning clip was deleted.
C36_ClipIfAnyProduced ==
    (tm_pc = "done" /\ SomeAttemptProduced) => tm_result.path

\* The divergence of C36: the first attempt overran and its clip was deleted,
\* the remaining attempts generated nothing, and the call returned no clip.
C36_Divergence ==
    /\ tm_pc = "done"
    /\ tm_max_attempts = 3
    /\ Len(tm_calls) = 3
    /\ tm_calls[1].produced # NoClip
    /\ tm_calls[2].produced = NoClip
    /\ tm_calls[3].produced = NoClip
    /\ ~tm_result.path

\* The calls that have begun and not yet completed
CallsInFlight == {c \in Calls : ga_pc[c] = "sleeping"}

\* C39: once all generate_async calls on the instance have completed, with a
\* result or an exception and however the calls interleaved, the instance's
\* voice_name is the value it had before the first call started.
C39_VoiceRestored ==
    (CallsInFlight = {} /\ \E c \in Calls : ga_pc[c] = "done") => voice_name = ConfigVoice

\* The divergence of C39: both calls have completed and the instance is left
\* with the voice of the first request.
C39_Divergence ==
    /\ \A c \in Calls : ga_pc[c] = "done"
    /\ \E c \in Calls : ga_request_voice[c] # NoVoice /\ voice_name = ga_request_voice[c]

====
